---- MODULE Spec2Model ----
(***************************************************************************)
(* A model of the pwf photo-workflow scripts (bin/common.py,               *)
(* bin/pwf_check.py, bin/pwf_protect.py, bin/pwf_import.py,                *)
(* bin/pwf_link.py).                                                       *)
(*                                                                         *)
(* File and directory names are strings and are examined character by      *)
(* character, as the regular expressions and str methods of the scripts    *)
(* do.  A path is the sequence of its parts (pathlib's Path.parts).        *)
(***************************************************************************)
EXTENDS Integers, Sequences, FiniteSets, TLC

VARIABLES
    fs,     \* the archive below PWF_ROOT_PATH: path -> node
    last,   \* what the last command was, and how it ended
    nops,   \* number of commands run so far that changed the archive
    arg,    \* input of the function under examination (function specifications)
    res     \* its result

vars == <<fs, last, nops, arg, res>>

(***************************************************************************)
(* Strings                                                                 *)
(***************************************************************************)
Ch(s, i) == SubSeq(s, i, i)

Digits == {"0", "1", "2", "3", "4", "5", "6", "7", "8", "9"}

IsDigit(c) == c \in Digits

DigitVal(c) ==
    CASE c = "0" -> 0 [] c = "1" -> 1 [] c = "2" -> 2 [] c = "3" -> 3
      [] c = "4" -> 4 [] c = "5" -> 5 [] c = "6" -> 6 [] c = "7" -> 7
      [] c = "8" -> 8 [] c = "9" -> 9

AllDigits(s) == \A i \in 1..Len(s) : IsDigit(Ch(s, i))

\* int(s) for a string of decimal digits
RECURSIVE StrToInt(_)
StrToInt(s) ==
    IF Len(s) = 0 THEN 0
    ELSE 10 * StrToInt(SubSeq(s, 1, Len(s) - 1)) + DigitVal(Ch(s, Len(s)))

StartsWith(s, p) == Len(s) >= Len(p) /\ SubSeq(s, 1, Len(p)) = p

EndsWith(s, p) == Len(s) >= Len(p) /\ SubSeq(s, Len(s) - Len(p) + 1, Len(s)) = p

\* the positions at which sub occurs in s
Occurrences(s, sub) ==
    {i \in 1..(Len(s) - Len(sub) + 1) : SubSeq(s, i, i + Len(sub) - 1) = sub}

Contains(s, sub) == Len(sub) = 0 \/ Occurrences(s, sub) # {}

Range(s) == {s[i] : i \in 1..Len(s)}

SetMin(S) == CHOOSE x \in S : \A y \in S : x <= y

SetMax(S) == CHOOSE x \in S : \A y \in S : x >= y

\* str.find: the first position of sub in s, 0 when there is none
Find(s, sub) == IF Occurrences(s, sub) = {} THEN 0 ELSE SetMin(Occurrences(s, sub))

\* str.rfind: the last position of sub in s, 0 when there is none
RFind(s, sub) == IF Occurrences(s, sub) = {} THEN 0 ELSE SetMax(Occurrences(s, sub))

\* s.split(sep)[-1]
SplitLast(s, sep) ==
    IF RFind(s, sep) = 0 THEN s ELSE SubSeq(s, RFind(s, sep) + Len(sep), Len(s))

(***************************************************************************)
(* common.py: stages, type directories, parse_path                         *)
(***************************************************************************)
States == {"NEW", "ORIGINAL", "LAB", "ALBUM", "PRINT"}

state_dirs ==
    [s \in States |->
        CASE s = "NEW" -> "0_new"
          [] s = "ORIGINAL" -> "1_original"
          [] s = "LAB" -> "2_lab"
          [] s = "ALBUM" -> "3_album"
          [] s = "PRINT" -> "4_print"]

StageDirNames == {state_dirs[s] : s \in States}

type_dirs == {"raw", "jpg", "audio", "video"}

None == "None"

NoYear == -1

\* Pwf_path_info() as constructed: every field unset
Pwf_path_info ==
    [state |-> None, is_event_dir |-> FALSE, year |-> NoYear,
     event |-> None, file_type |-> None]

\* re.match(r"\d{4}-\d{2}-\d{2}_.*", part)
MatchesEvent(part) ==
    /\ Len(part) >= 11
    /\ AllDigits(SubSeq(part, 1, 4))
    /\ Ch(part, 5) = "-"
    /\ AllDigits(SubSeq(part, 6, 7))
    /\ Ch(part, 8) = "-"
    /\ AllDigits(SubSeq(part, 9, 10))
    /\ Ch(part, 11) = "_"

\* re.match(r"\d{4}", part): anchored at the start only
MatchesYear(part) == Len(part) >= 4 /\ AllDigits(SubSeq(part, 1, 4))

\* the match statement on the stage directory names
MatchState(part) ==
    CASE part = "0_new" -> "NEW"
      [] part = "1_original" -> "ORIGINAL"
      [] part = "2_lab" -> "LAB"
      [] part = "3_album" -> "ALBUM"
      [] part = "4_print" -> "PRINT"
      [] OTHER -> None

\* a mutant of ParseStep: a later stage segment overrides an earlier one
ParseStep_LastStageWins(info, part, lastPart) ==
    IF MatchesEvent(part)
    THEN [info EXCEPT !.event = part,
                      !.is_event_dir = (info.is_event_dir \/ part = lastPart)]
    ELSE IF MatchesYear(part)
    THEN [info EXCEPT !.year = StrToInt(SubSeq(part, 1, 4))]
    ELSE IF SplitLast(part, "_") \in type_dirs
    THEN [info EXCEPT !.file_type = SplitLast(part, "_")]
    ELSE IF MatchState(part) # None
    THEN [info EXCEPT !.state = MatchState(part)]
    ELSE info

\* one iteration of the loop over the parts
ParseStep(info, part, lastPart) ==
    IF MatchesEvent(part)
    THEN [info EXCEPT !.event = part,
                      !.is_event_dir = (info.is_event_dir \/ part = lastPart)]
    ELSE IF MatchesYear(part)
    THEN [info EXCEPT !.year = StrToInt(SubSeq(part, 1, 4))]
    ELSE IF SplitLast(part, "_") \in type_dirs
    THEN [info EXCEPT !.file_type = SplitLast(part, "_")]
    ELSE IF info.state = None
    THEN [info EXCEPT !.state = MatchState(part)]
    ELSE info

RECURSIVE ParseLoop(_, _, _)
ParseLoop(parts, i, info) ==
    IF i > Len(parts) THEN info
    ELSE ParseLoop(parts, i + 1, ParseStep(info, parts[i], parts[Len(parts)]))

\* the year back-fill after the loop
BackFillYear(info) ==
    IF info.year = NoYear /\ info.event # None
    THEN [info EXCEPT !.year = StrToInt(SubSeq(info.event, 1, 4))]
    ELSE info

\* parse_path: the descriptor, or the classification error
parse_path(parts) ==
    LET Return(info) ==
            IF info.state = None
            THEN [raised |-> "ValueError: Cannot parse state from path!", info |-> info]
            ELSE [raised |-> None, info |-> info]
    IN  Return(BackFillYear(ParseLoop(parts, 1, Pwf_path_info)))

(***************************************************************************)
(* The archive.  fs maps each existing path (its parts below               *)
(* PWF_ROOT_PATH) to a node.  A file's bytes are head \o rest, head being  *)
(* what a read of the first PartialRead bytes returns.                     *)
(***************************************************************************)
RootParts == <<"/", "pwf">>

\* Path.parts of pwf_root_path / p
AbsParts(p) == RootParts \o p

Parent(p) == SubSeq(p, 1, Len(p) - 1)

Name(p) == p[Len(p)]

IsPrefix(a, b) == Len(a) <= Len(b) /\ SubSeq(b, 1, Len(a)) = a

Exists(f, p) == p \in DOMAIN f

IsDir(f, p) == Exists(f, p) /\ f[p].kind = "dir"

IsFile(f, p) == Exists(f, p) /\ f[p].kind = "file"

\* path.glob("**/*"): everything below path, path itself excluded
Glob(f, path) ==
    IF IsDir(f, path)
    THEN {p \in DOMAIN f : Len(p) > Len(path) /\ IsPrefix(path, p)}
    ELSE {}

\* the code points the names of the model are made of, in ascending order
Alphabet == " &*-./0123456789ABCDEFGHIJKLMNOPQRSTUVWXYZ_abcdefghijklmnopqrstuvwxyz~"

Ord(c) == Find(Alphabet, c)

\* a < b for str
RECURSIVE StrLess(_, _)
StrLess(a, b) ==
    IF Len(b) = 0 THEN FALSE
    ELSE IF Len(a) = 0 THEN TRUE
    ELSE IF Ch(a, 1) = Ch(b, 1) THEN StrLess(SubSeq(a, 2, Len(a)), SubSeq(b, 2, Len(b)))
    ELSE Ord(Ch(a, 1)) < Ord(Ch(b, 1))

\* a < b for Path: the parts compared as lists
RECURSIVE PathLess(_, _)
PathLess(a, b) ==
    IF Len(b) = 0 THEN FALSE
    ELSE IF Len(a) = 0 THEN TRUE
    ELSE IF a[1] = b[1] THEN PathLess(Tail(a), Tail(b))
    ELSE StrLess(a[1], b[1])

\* sorted(paths)
RECURSIVE Sorted(_)
Sorted(S) ==
    IF S = {} THEN <<>>
    ELSE LET m == CHOOSE x \in S : \A y \in S \ {x} : PathLess(x, y)
         IN  <<m>> \o Sorted(S \ {m})

\* str(Path) of a relative path
RECURSIVE JoinPath(_)
JoinPath(p) ==
    IF Len(p) = 0 THEN "."
    ELSE IF Len(p) = 1 THEN p[1]
    ELSE p[1] \o "/" \o JoinPath(Tail(p))

\* the parts of Path(s) for a relative path string
RECURSIVE SplitPath(_)
SplitPath(s) ==
    IF Len(s) = 0 THEN <<>>
    ELSE IF Find(s, "/") = 0 THEN <<s>>
    ELSE IF Find(s, "/") = 1 THEN SplitPath(SubSeq(s, 2, Len(s)))
    ELSE <<SubSeq(s, 1, Find(s, "/") - 1)>>
            \o SplitPath(SubSeq(s, Find(s, "/") + 1, Len(s)))

\* path.parent / (path.name + ".md5")
Md5File(path) == Parent(path) \o <<Name(path) \o ".md5">>

PartialRead == 8000

RECURSIVE Zeros(_)
Zeros(n) == IF n <= 0 THEN "" ELSE "0" \o Zeros(n - 1)

\* hashlib.md5(data).hexdigest(), idealised: 32 hexadecimal characters, and
\* different data give different digests (data are strings over a..f)
Md5Hex(data) == data \o Zeros(32 - Len(data))

\* f.read(8000 if is_partial else None)
ReadBytes(node, is_partial) ==
    IF is_partial THEN node.head ELSE node.head \o node.rest

\* pwf_protect.compute_md5sum
compute_md5sum(node, is_partial) == Md5Hex(ReadBytes(node, is_partial))

(***************************************************************************)
(* pwf_check.py: the check categories.  Each returns "ok" or the error it  *)
(* raises.                                                                 *)
(***************************************************************************)
OK == "ok"

Letters == {Ch("ABCDEFGHIJKLMNOPQRSTUVWXYZabcdefghijklmnopqrstuvwxyz", i) : i \in 1..52}

\* one character of the class [\w~._-] (of the characters of Alphabet)
IsLegalChar(c) == c \in Letters \cup Digits \cup {"_", "~", ".", "-"}

\* re.match(rf"^[{common.legal_characters}]+$", name)
IsLegalName(name) ==
    Len(name) > 0 /\ \A i \in 1..Len(name) : IsLegalChar(Ch(name, i))

\* [path] + list(path.glob("**/*"))
WithSelf(f, path) == {path} \cup Glob(f, path)

_check_names(f, path) ==
    IF \E p \in WithSelf(f, path) : ~IsLegalName(Name(p))
    THEN "AssertionError: Found illegal chars in file or folder names!"
    ELSE OK

\* the files that share their size with another file of the subtree
SizeCandidates(f, path) ==
    {p \in Glob(f, path) :
        /\ IsFile(f, p)
        /\ \E q \in Glob(f, path) : q # p /\ IsFile(f, q) /\ f[q].size = f[p].size}

\* by_md5: the candidates grouped by the checksum of their first bytes
DuplicateGroups(f, path) ==
    LET cand == SizeCandidates(f, path)
        sums == {compute_md5sum(f[p], TRUE) : p \in cand}
        groups == {{p \in cand : compute_md5sum(f[p], TRUE) = m} : m \in sums}
    IN  {g \in groups : Cardinality(g) >= 2}

_check_duplicates(f, path) ==
    IF DuplicateGroups(f, path) # {}
    THEN "AssertionError: Found duplicate files!"
    ELSE OK

S_IFDIR == \o40000

S_IFREG == \o100000

\* p.stat(follow_symlinks=False).st_mode
StMode(node) == (IF node.kind = "dir" THEN S_IFDIR ELSE S_IFREG) + node.mode

\* the bit of weight w (a power of two) is set in n
BitSet(n, w) == (n \div w) % 2 = 1

\* a mutant of IsLocked: the write bits of group and others only (0x022)
IsLocked_GroupAndOthers(mode) ==
    LET d1 == (mode \div 8) % 8
        d0 == mode % 8
        asHex == d1 * 16 + d0
    IN  ~(BitSet(asHex, 32) \/ BitSet(asHex, 2))

\* int(oct(mode)[-3:], 16) & 0x222: the last three octal digits, read as
\* hexadecimal digits, have one of the bits 0x200, 0x020, 0x002 set
IsLocked(mode) ==
    LET d2 == (mode \div 64) % 8
        d1 == (mode \div 8) % 8
        d0 == mode % 8
        asHex == d2 * 256 + d1 * 16 + d0
    IN  ~(BitSet(asHex, 512) \/ BitSet(asHex, 32) \/ BitSet(asHex, 2))

_check_protection(f, path) ==
    IF ~Exists(f, path) THEN "FileNotFoundError"
    ELSE IF \E p \in WithSelf(f, path) : ~IsLocked(StMode(f[p]))
    THEN "AssertionError: Found unprotected files or directories!"
    ELSE OK

\* str.replace(old, new)
RECURSIVE Replace(_, _, _)
Replace(s, old, new) ==
    IF Find(s, old) = 0 THEN s
    ELSE SubSeq(s, 1, Find(s, old) - 1) \o new
            \o Replace(SubSeq(s, Find(s, old) + Len(old), Len(s)), old, new)

\* the position of the dot that starts PurePath.suffix, 0 when there is none
SuffixDot(name) ==
    IF RFind(name, ".") > 1 /\ RFind(name, ".") < Len(name) THEN RFind(name, ".") ELSE 0

\* PurePath.suffix
Suffix(name) ==
    IF SuffixDot(name) = 0 THEN "" ELSE SubSeq(name, SuffixDot(name), Len(name))

\* PurePath.stem
Stem(name) ==
    IF SuffixDot(name) = 0 THEN name ELSE SubSeq(name, 1, SuffixDot(name) - 1)

\* re.search(r"[a-zA-Z]", name): the position of the first letter, 0 for no match
FirstLetter(name) ==
    IF \E i \in 1..Len(name) : Ch(name, i) \in Letters
    THEN SetMin({i \in 1..Len(name) : Ch(name, i) \in Letters})
    ELSE 0

\* common.get_orig_name(path, with_extension); None stands for the RuntimeError
get_orig_name(fullname, with_extension) ==
    LET n1 == IF EndsWith(fullname, "-preview.jpg")
              THEN Replace(fullname, "-preview.jpg", "") ELSE fullname
        n2 == IF with_extension THEN n1 ELSE Stem(n1)
    IN  IF FirstLetter(n2) = 0 THEN None ELSE SubSeq(n2, FirstLetter(n2), Len(n2))

raw_file_extensions == {"NEF", "NRW", "CR2"}

\* the entries path.glob(f"**/*.{ext}") yields over the raw extensions
RawFiles(f, path) ==
    {p \in Glob(f, path) : \E ext \in raw_file_extensions : EndsWith(Name(p), "." \o ext)}

\* a mutant of FilesWithSameStem: directories are left out
FilesWithSameStem_FilesOnly(f, path, stem) ==
    {q \in Glob(f, path) : IsFile(f, q) /\ Contains(Name(q), stem)}

\* list(path.glob(f"**/*{stem}*"))
FilesWithSameStem(f, path, stem) == {q \in Glob(f, path) : Contains(Name(q), stem)}

_check_raw_derivatives(f, path) ==
    IF \E p \in RawFiles(f, path) : get_orig_name(Name(p), FALSE) = None
    THEN "RuntimeError: Unable to determine orig name"
    ELSE IF \E p \in RawFiles(f, path) :
                Cardinality(FilesWithSameStem(f, path, get_orig_name(Name(p), FALSE))) > 1
    THEN "AssertionError: Found RAW derivatives!"
    ELSE OK

\* common.valid_file_locations; None for a suffix that is not a key
valid_file_locations(suffix) ==
    CASE suffix \in {".NEF", ".NRW", ".CR2"} -> "raw"
      [] suffix \in {".jpg", ".jpeg", ".JPG", ".JPEG"} -> "jpg"
      [] suffix \in {".MOV", ".mp4", ".MP4", ".mpeg", ".mov"} -> "video"
      [] suffix \in {".wav", ".WAV", ".mp3"} -> "audio"
      [] OTHER -> None

_check_paths(f, path) ==
    IF \E p \in Glob(f, path) :
            /\ IsFile(f, p)
            /\ valid_file_locations(Suffix(Name(p))) # None
            /\ Name(Parent(p)) # valid_file_locations(Suffix(Name(p)))
    THEN "AssertionError: Found files in wrong locations!"
    ELSE OK

(***************************************************************************)
(* The checksum manifest <name>.md5 beside a directory: a text file.       *)
(***************************************************************************)
\* f.readlines(): the text cut after each newline
RECURSIVE ReadLines(_)
ReadLines(text) ==
    IF Len(text) = 0 THEN <<>>
    ELSE IF Find(text, "\n") = 0 THEN <<text>>
    ELSE <<SubSeq(text, 1, Find(text, "\n"))>>
            \o ReadLines(SubSeq(text, Find(text, "\n") + 1, Len(text)))

IsSpace(c) == c \in {" ", "\n"}

\* str.strip()
RECURSIVE Strip(_)
Strip(s) ==
    IF Len(s) = 0 THEN s
    ELSE IF IsSpace(Ch(s, 1)) THEN Strip(SubSeq(s, 2, Len(s)))
    ELSE IF IsSpace(Ch(s, Len(s))) THEN Strip(SubSeq(s, 1, Len(s) - 1))
    ELSE s

\* line.strip().split(" ", 1) unpacks into two values
LineSplits(line) == Find(Strip(line), " ") # 0

\* one iteration of the loop of _read_md5sums_file: the entry of a line
ReadLine(path, line) ==
    LET t == Strip(line)
        md5sum == SubSeq(t, 1, Find(t, " ") - 1)
        path_str == SubSeq(t, Find(t, " ") + 1, Len(t))
        is_binary == StartsWith(path_str, "*")
    IN  [md5sum |-> md5sum,
         file_path |-> Parent(path) \o
            SplitPath(IF is_binary THEN SubSeq(path_str, 2, Len(path_str)) ELSE path_str),
         is_binary |-> is_binary]

\* _read_md5sums_file: the dict as the set of its items; a later line with the
\* same checksum replaces the earlier one
_read_md5sums_file(f, path) ==
    LET Entries(lines) ==
            IF \E i \in 1..Len(lines) : ~LineSplits(lines[i])
            THEN [raised |-> "ValueError: not enough values to unpack", md5sums |-> {}]
            ELSE [raised |-> None,
                  md5sums |->
                    {ReadLine(path, lines[i]) : i \in
                       {j \in 1..Len(lines) :
                           \A k \in (j + 1)..Len(lines) :
                               ReadLine(path, lines[k]).md5sum
                                   # ReadLine(path, lines[j]).md5sum}}]
    IN  IF ~IsFile(f, Md5File(path)) THEN [raised |-> "FileNotFoundError", md5sums |-> {}]
        ELSE Entries(ReadLines(f[Md5File(path)].head))

\* common.compute_md5sum(file_path, is_binary): the checksum of the whole file,
\* None standing for the FileNotFoundError
common_compute_md5sum(f, file_path, is_binary) ==
    IF IsFile(f, file_path) THEN compute_md5sum(f[file_path], FALSE) ELSE None

_check_checksums(f, path) ==
    LET Compare(r) ==
            IF r.raised # None THEN r.raised
            ELSE IF \E e \in r.md5sums :
                        common_compute_md5sum(f, e.file_path, e.is_binary) # e.md5sum
            THEN "AssertionError: Found missing files or files with wrong MD5 sum"
            ELSE OK
    IN  Compare(_read_md5sums_file(f, path))

_check_missing_files(f, path) ==
    LET Compare(r) ==
            IF r.raised # None THEN r.raised
            ELSE IF \E e \in r.md5sums : ~Exists(f, e.file_path)
            THEN "AssertionError: Found missing files"
            ELSE OK
    IN  Compare(_read_md5sums_file(f, path))

(***************************************************************************)
(* pwf_check.py: _get_checklist and main                                   *)
(***************************************************************************)
things_to_check == {"cs", "dup", "miss", "name", "path", "prot", "raw"}

\* the categories a stage exempts: what _get_checklist adds to the ignorelist
StageIgnores_LabKeepsRaw(state) ==
    IF state = "NEW" THEN {"cs", "miss", "prot"}
    ELSE IF state = "LAB" THEN {"cs", "miss", "prot", "path"}
    ELSE IF state # "ORIGINAL" THEN {"cs", "prot", "miss"}
    ELSE {}

StageIgnores(state) ==
    IF state = "NEW" THEN {"cs", "miss", "prot"}
    ELSE IF state = "LAB" THEN {"cs", "miss", "prot", "path", "raw"}
    ELSE IF state # "ORIGINAL" THEN {"cs", "prot", "miss"}
    ELSE {}

\* the ignorelist items _get_checklist refuses for a stage, with the error
ForbiddenIgnore_None(state, ignorelist) == None

ForbiddenIgnore(state, ignorelist) ==
    IF state = "NEW" /\ "dup" \in ignorelist
    THEN "ValueError: Ignoring duplicate violations is not allowed in 0_new!"
    ELSE IF state = "NEW" /\ "path" \in ignorelist
    THEN "ValueError: Ignoring path violations is not allowed in 0_new!"
    ELSE None

\* _get_checklist(path, ignorelist, onlylist); parts are the parts of path
_get_checklist(parts, ignorelist, onlylist) ==
    LET Return(checklist) ==
            IF checklist = {}
            THEN [raised |-> "ValueError: Everything ignored, nothing to check!",
                  checklist |-> {}]
            ELSE [raised |-> None, checklist |-> checklist]
        ForState(path_info, state) ==
            IF path_info.raised # None
            THEN [raised |-> path_info.raised, checklist |-> {}]
            ELSE IF ForbiddenIgnore(state, ignorelist) # None
            THEN [raised |-> ForbiddenIgnore(state, ignorelist), checklist |-> {}]
            ELSE Return((IF onlylist = {} THEN things_to_check ELSE onlylist)
                            \ (ignorelist \cup StageIgnores(state)))
        ForPath(path_info) == ForState(path_info, path_info.info.state)
    IN  ForPath(parse_path(parts))

\* the order of the if statements of main
CheckOrder_ProtectionFirst == <<"prot", "name", "dup", "raw", "path">>

CheckOrder == <<"name", "dup", "prot", "raw", "path">>

\* the categories main calls for a checklist, in the order it calls them
CheckPlan(checklist) ==
    LET Enabled(c) == c \in checklist
    IN  SelectSeq(CheckOrder, Enabled)
            \o (IF "cs" \in checklist THEN <<"cs">>
                ELSE IF "miss" \in checklist THEN <<"miss">>
                ELSE <<>>)

RunCategory(c, f, path) ==
    CASE c = "name" -> _check_names(f, path)
      [] c = "dup" -> _check_duplicates(f, path)
      [] c = "prot" -> _check_protection(f, path)
      [] c = "raw" -> _check_raw_derivatives(f, path)
      [] c = "path" -> _check_paths(f, path)
      [] c = "cs" -> _check_checksums(f, path)
      [] c = "miss" -> _check_missing_files(f, path)

\* the calls of main from the i-th of the plan on: the categories run and the
\* error of the first that raises
RECURSIVE RunPlan(_, _, _, _)
RunPlan(plan, i, f, path) ==
    LET Ran(r) == [outcome |-> r.outcome, ran |-> <<plan[i]>> \o r.ran]
        After(outcome) ==
            IF outcome # OK THEN [outcome |-> outcome, ran |-> <<plan[i]>>]
            ELSE Ran(RunPlan(plan, i + 1, f, path))
    IN  IF i > Len(plan) THEN [outcome |-> OK, ran |-> <<>>]
        ELSE After(RunCategory(plan[i], f, path))

(***************************************************************************)
(* Renaming and moving entries (os.replace, shutil.move), as an ordinary   *)
(* user: creating or removing a directory entry needs the owner's write    *)
(* bit on the directory.                                                   *)
(***************************************************************************)
OwnerWritable(mode) == BitSet(mode, 128)

\* the archive root itself is not part of fs and is writable
DirWritable(f, d) == d = <<>> \/ (IsDir(f, d) /\ OwnerWritable(f[d].mode))

Subtree(f, p) == {q \in DOMAIN f : IsPrefix(p, q)}

\* the archive with the subtree at src moved to dst, whatever was at dst replaced
MoveTree(f, src, dst) ==
    LET moved == {dst \o SubSeq(q, Len(src) + 1, Len(q)) : q \in Subtree(f, src)}
        kept == (DOMAIN f \ Subtree(f, src)) \ Subtree(f, dst)
    IN  [q \in kept \cup moved |->
            IF q \in moved THEN f[src \o SubSeq(q, Len(dst) + 1, Len(q))] ELSE f[q]]

\* os.replace(src, dst)
Rename(f, src, dst) ==
    IF ~Exists(f, src) THEN [raised |-> "FileNotFoundError", fs |-> f]
    ELSE IF dst = src THEN [raised |-> None, fs |-> f]
    ELSE IF ~DirWritable(f, Parent(src)) \/ ~DirWritable(f, Parent(dst))
    THEN [raised |-> "PermissionError", fs |-> f]
    ELSE IF IsPrefix(dst, src) \/ IsPrefix(src, dst)
    THEN [raised |-> "OSError", fs |-> f]
    ELSE IF IsFile(f, src) /\ IsDir(f, dst)
    THEN [raised |-> "IsADirectoryError", fs |-> f]
    ELSE IF IsDir(f, src) /\ IsFile(f, dst)
    THEN [raised |-> "NotADirectoryError", fs |-> f]
    ELSE IF IsDir(f, src) /\ IsDir(f, dst) /\ Glob(f, dst) # {}
    THEN [raised |-> "OSError: Directory not empty", fs |-> f]
    ELSE [raised |-> None, fs |-> MoveTree(f, src, dst)]

(***************************************************************************)
(* pwf_check.py: _fix_names                                                *)
(***************************************************************************)
\* a mutant of name_replacements: every underscore is dropped
name_replacements_NoUnderscore == {<<" ", "_">>, <<"&", "und">>, <<"_", "">>}

name_replacements == {<<" ", "_">>, <<"&", "und">>, <<"-_", "">>}

\* the orders in which a loop over the set name_replacements can run
ReplacementOrders ==
    {o \in [1..3 -> name_replacements] : \A i, j \in 1..3 : i # j => o[i] # o[j]}

\* for r in common.name_replacements: newname = newname.replace(r[0], r[1])
RECURSIVE FixedName(_, _, _)
FixedName(name, order, i) ==
    IF i > Len(order) THEN name
    ELSE FixedName(Replace(name, order[i][1], order[i][2]), order, i + 1)

RECURSIVE Reversed(_)
Reversed(s) == IF Len(s) = 0 THEN <<>> ELSE Reversed(Tail(s)) \o <<Head(s)>>

\* a mutant of FilesToFix: the paths are taken in ascending order
FilesToFix_TopDown(f, path) ==
    LET IsIllegal(p) == ~IsLegalName(Name(p))
    IN  SelectSeq(Sorted(Glob(f, path) \cup {path}), IsIllegal)

\* files_to_fix: the illegal names of sorted(paths, reverse=True)
FilesToFix(f, path) ==
    LET IsIllegal(p) == ~IsLegalName(Name(p))
    IN  SelectSeq(Reversed(Sorted(Glob(f, path) \cup {path})), IsIllegal)

\* the second loop of _fix_names from the i-th file to fix on
RECURSIVE FixLoop(_, _, _, _)
FixLoop(f, todo, i, order) ==
    LET After(r) == IF r.raised # None THEN r ELSE FixLoop(r.fs, todo, i + 1, order)
        Fix(p) == After(Rename(f, p, Parent(p) \o <<FixedName(Name(p), order, 1)>>))
    IN  IF i > Len(todo) THEN [raised |-> None, fs |-> f] ELSE Fix(todo[i])

\* _fix_names(path, is_nono), the set name_replacements iterated in order
_fix_names(f, path, is_nono, order) ==
    IF is_nono THEN [raised |-> None, fs |-> f]
    ELSE FixLoop(f, FilesToFix(f, path), 1, order)

\* a mutant of DryRunReturns: the dry run goes on to the checks
DryRunReturns_Never(fixing, is_nono) == FALSE

\* main returns after _fix_names when is_nono is set
DryRunReturns(fixing, is_nono) == fixing /\ is_nono

\* pwf_check.main: the error or OK, the categories run, the archive afterwards
main_check(f, path, ignorelist, onlylist, do_fix, is_nono, order) ==
    LET Checked(run, g) == [outcome |-> run.outcome, ran |-> run.ran, fs |-> g]
        Fixed(checklist, fixing, fixed) ==
            IF fixed.raised # None
            THEN [outcome |-> fixed.raised, ran |-> <<>>, fs |-> fixed.fs]
            ELSE IF DryRunReturns(fixing, is_nono)
            THEN [outcome |-> OK, ran |-> <<>>, fs |-> fixed.fs]
            ELSE Checked(RunPlan(CheckPlan(checklist), 1, fixed.fs, path), fixed.fs)
        Fixing(checklist, fixing) ==
            Fixed(checklist, fixing,
                  IF fixing THEN _fix_names(f, path, is_nono, order)
                  ELSE [raised |-> None, fs |-> f])
        Listed(cl) ==
            IF cl.raised # None
            THEN [outcome |-> cl.raised, ran |-> <<>>, fs |-> f]
            ELSE Fixing(cl.checklist, do_fix /\ "name" \in cl.checklist)
    IN  Listed(_get_checklist(AbsParts(path), ignorelist, onlylist))

(***************************************************************************)
(* pwf_protect.py                                                          *)
(***************************************************************************)
\* the mode open() gives a file it creates (umask 002, as the 0o775 and 0o664
\* of unprotect)
NewFileMode == \o664

NoBytes == ""

\* with open(md5_file, "a") as f: f.write(text)
AppendText(f, file, text) ==
    IF IsDir(f, file) THEN [raised |-> "IsADirectoryError", fs |-> f]
    ELSE IF IsFile(f, file)
    THEN IF ~OwnerWritable(f[file].mode) THEN [raised |-> "PermissionError", fs |-> f]
         ELSE [raised |-> None,
               fs |-> [f EXCEPT ![file].head = @ \o text,
                                ![file].size = @ + Len(text)]]
    ELSE IF ~DirWritable(f, Parent(file)) THEN [raised |-> "PermissionError", fs |-> f]
    ELSE [raised |-> None,
          fs |-> (file :> [kind |-> "file", mode |-> NewFileMode, size |-> Len(text),
                           head |-> text, rest |-> NoBytes]) @@ f]

\* p.chmod(mode), p.lchmod(mode)
Chmod(f, p, mode) == [f EXCEPT ![p].mode = mode]

\* str(p.relative_to(path.parent))
RelativeToParent(p, path) == JoinPath(SubSeq(p, Len(path), Len(p)))

\* the text protect writes for a file: no line end follows the path
ManifestEntry(f, p, path) ==
    compute_md5sum(f[p], FALSE) \o " *" \o RelativeToParent(p, path)

\* the loop of protect from the i-th entry of sorted(path.glob("**/*")) on
RECURSIVE ProtectLoop(_, _, _, _)
ProtectLoop(f, todo, i, path) ==
    LET Written(w, p) ==
            IF w.raised # None THEN w
            ELSE ProtectLoop(Chmod(w.fs, p, \o444), todo, i + 1, path)
        Lock(p) ==
            IF IsDir(f, p) THEN ProtectLoop(Chmod(f, p, \o555), todo, i + 1, path)
            ELSE Written(AppendText(f, Md5File(path), ManifestEntry(f, p, path)), p)
    IN  IF i > Len(todo) THEN [raised |-> None, fs |-> f] ELSE Lock(todo[i])

\* protect(path, is_forced)
protect(f, path, is_forced) ==
    LET Locked(done) ==
            [outcome |-> IF done.raised = None THEN OK ELSE done.raised, fs |-> done.fs]
        Checked(outcome) ==
            IF outcome # OK THEN [outcome |-> outcome, fs |-> f]
            ELSE Locked(ProtectLoop(f, Sorted(Glob(f, path)), 1, path))
    IN  Checked(IF is_forced THEN OK
                ELSE main_check(f, path, {"prot"}, {}, FALSE, FALSE, <<>>).outcome)

\* a mutant of UnprotectModes: the files are opened whatever is_all says
UnprotectModes_FilesToo(f, path, is_all) ==
    [p \in DOMAIN f |->
        IF p \in Glob(f, path) /\ f[p].kind = "dir" THEN [f[p] EXCEPT !.mode = \o775]
        ELSE IF p \in Glob(f, path) /\ f[p].kind = "file"
        THEN [f[p] EXCEPT !.mode = \o664]
        ELSE f[p]]

\* the loop of unprotect; the order of the chmod calls does not matter
UnprotectModes(f, path, is_all) ==
    [p \in DOMAIN f |->
        IF p \in Glob(f, path) /\ f[p].kind = "dir" THEN [f[p] EXCEPT !.mode = \o775]
        ELSE IF p \in Glob(f, path) /\ is_all /\ f[p].kind = "file"
        THEN [f[p] EXCEPT !.mode = \o664]
        ELSE f[p]]

\* unprotect(path, is_all)
unprotect(f, path, is_all) ==
    LET Md5Mode(g) == IF Exists(g, Md5File(path)) THEN Chmod(g, Md5File(path), \o664) ELSE g
    IN  Md5Mode(UnprotectModes(f, path, is_all))

(***************************************************************************)
(* pwf_import.py                                                           *)
(***************************************************************************)
DigitChar(d) == Ch("0123456789", d + 1)

\* str(n) for an int n >= 0
RECURSIVE IntToStr(_)
IntToStr(n) == IF n < 10 THEN DigitChar(n) ELSE IntToStr(n \div 10) \o DigitChar(n % 10)

\* common.pwf_root_path / "1_original" / str(path_info.year)
TargetDir(year) == <<"1_original", IntToStr(year)>>

\* where shutil.move(src, dst) puts src: inside dst when dst is a directory
MoveDestination(f, src, dst) == IF IsDir(f, dst) THEN dst \o <<Name(src)>> ELSE dst

\* shutil.move(src, dst) of a directory within one file system
shutil_move(f, src, dst) ==
    LET MoveTo(real_dst) ==
            IF IsDir(f, dst) /\ Exists(f, real_dst)
            THEN [raised |-> "shutil.Error: Destination path already exists", fs |-> f]
            ELSE IF Exists(f, src) /\ IsDir(f, src) /\ ~OwnerWritable(f[src].mode)
            THEN [raised |-> "PermissionError", fs |-> f]
            ELSE Rename(f, src, real_dst)
    IN  MoveTo(MoveDestination(f, src, dst))

\* pwf_import.main without the return of the dry run
main_import_DryRunMoves(f, path, has_ignorelist, ignorelist, keep_unprotected, is_nono) ==
    LET Protected(r) ==
            [outcome |-> r.outcome, steps |-> <<"check", "unprotect", "move", "protect">>,
             fs |-> r.fs]
        Moved(unprotected, moved, target_dir) ==
            IF moved.raised # None
            THEN [outcome |-> moved.raised, steps |-> <<"check", "unprotect", "move">>,
                  fs |-> unprotected]
            ELSE IF keep_unprotected
            THEN [outcome |-> OK, steps |-> <<"check", "unprotect", "move">>,
                  fs |-> moved.fs]
            ELSE Protected(protect(moved.fs, target_dir, TRUE))
        Unprotected(unprotected, target_dir) ==
            Moved(unprotected, shutil_move(unprotected, path, target_dir), target_dir)
        Checked(outcome, target_dir) ==
            IF outcome # OK
            THEN [outcome |-> outcome, steps |-> <<"check">>, fs |-> f]
            ELSE Unprotected(unprotect(f, target_dir, FALSE), target_dir)
        Parsed(raised, info) ==
            IF raised # None
            THEN [outcome |-> raised, steps |-> <<>>, fs |-> f]
            ELSE IF info.state # "NEW" \/ ~info.is_event_dir
            THEN [outcome |-> "ValueError: Invalid path!", steps |-> <<>>, fs |-> f]
            ELSE IF info.year = NoYear
            THEN [outcome |-> "RuntimeError: Cannot auto-detect year", steps |-> <<>>,
                  fs |-> f]
            ELSE IF has_ignorelist /\ ignorelist # {"raw"}
            THEN [outcome |-> "ValueError: Only allowed ignorelist item is 'raw'!",
                  steps |-> <<>>, fs |-> f]
            ELSE Checked(main_check(f, path, IF has_ignorelist THEN ignorelist ELSE {},
                                    {}, FALSE, is_nono, <<>>).outcome,
                         TargetDir(info.year))
        Path(path_info) == Parsed(path_info.raised, path_info.info)
    IN  Path(parse_path(AbsParts(path)))

\* pwf_import.main; has_ignorelist tells an ignorelist from None.  The steps
\* begun are recorded.
main_import(f, path, has_ignorelist, ignorelist, keep_unprotected, is_nono) ==
    LET Protected(r) ==
            [outcome |-> r.outcome, steps |-> <<"check", "unprotect", "move", "protect">>,
             fs |-> r.fs]
        Moved(unprotected, moved, target_dir) ==
            IF moved.raised # None
            THEN [outcome |-> moved.raised, steps |-> <<"check", "unprotect", "move">>,
                  fs |-> unprotected]
            ELSE IF keep_unprotected
            THEN [outcome |-> OK, steps |-> <<"check", "unprotect", "move">>,
                  fs |-> moved.fs]
            ELSE Protected(protect(moved.fs, target_dir, TRUE))
        Unprotected(unprotected, target_dir) ==
            Moved(unprotected, shutil_move(unprotected, path, target_dir), target_dir)
        Checked(outcome, target_dir) ==
            IF outcome # OK
            THEN [outcome |-> outcome, steps |-> <<"check">>, fs |-> f]
            ELSE IF is_nono
            THEN [outcome |-> OK, steps |-> <<"check">>, fs |-> f]
            ELSE Unprotected(unprotect(f, target_dir, FALSE), target_dir)
        Parsed(raised, info) ==
            IF raised # None
            THEN [outcome |-> raised, steps |-> <<>>, fs |-> f]
            ELSE IF info.state # "NEW" \/ ~info.is_event_dir
            THEN [outcome |-> "ValueError: Invalid path!", steps |-> <<>>, fs |-> f]
            ELSE IF info.year = NoYear
            THEN [outcome |-> "RuntimeError: Cannot auto-detect year", steps |-> <<>>,
                  fs |-> f]
            ELSE IF has_ignorelist /\ ignorelist # {"raw"}
            THEN [outcome |-> "ValueError: Only allowed ignorelist item is 'raw'!",
                  steps |-> <<>>, fs |-> f]
            ELSE Checked(main_check(f, path, IF has_ignorelist THEN ignorelist ELSE {},
                                    {}, FALSE, is_nono, <<>>).outcome,
                         TargetDir(info.year))
        Path(path_info) == Parsed(path_info.raised, path_info.info)
    IN  Path(parse_path(AbsParts(path)))

Dir(mode) == [kind |-> "dir", mode |-> mode, size |-> 0, head |-> NoBytes, rest |-> NoBytes]

(***************************************************************************)
(* Paths as pwf_link.py handles them: absolute, or relative as readlink    *)
(* returns them.  A path is the sequence Path.parts, "/" first when it is  *)
(* absolute.  A symbolic link is a node of kind "link" whose head is the   *)
(* text of its target.                                                     *)
(***************************************************************************)
\* str(path)
StrPath(parts) ==
    IF Len(parts) > 0 /\ parts[1] = "/"
    THEN "/" \o (IF Len(parts) = 1 THEN "" ELSE JoinPath(Tail(parts)))
    ELSE JoinPath(parts)

\* Path(s).parts
ToPath(s) == IF StartsWith(s, "/") THEN <<"/">> \o SplitPath(s) ELSE SplitPath(s)

\* the path lies at or below common.pwf_root_path
BelowRoot(p) == IsPrefix(RootParts, p)

\* path.relative_to(common.pwf_root_path), for a path below the root
RootRelative(p) == SubSeq(p, Len(RootParts) + 1, Len(p))

\* an absolute path with its ".." steps taken
RECURSIVE Normal(_, _)
Normal(done, todo) ==
    IF Len(todo) = 0 THEN done
    ELSE IF Head(todo) = ".."
    THEN Normal(IF Len(done) > 1 THEN Parent(done) ELSE done, Tail(todo))
    ELSE Normal(done \o <<Head(todo)>>, Tail(todo))

\* the path the system walks for p: the ".." steps of an absolute path taken
\* (the directories stepped out of are there)
Taken(p) == IF Len(p) > 0 /\ p[1] = "/" THEN Normal(<<"/">>, Tail(p)) ELSE p

\* the entry of the archive that p names
EntryOf(p) == RootRelative(Taken(p))

\* the entry is there, a link not followed (os.lstat succeeds)
LExists(f, p) ==
    BelowRoot(Taken(p)) /\ (Len(Taken(p)) = Len(RootParts) \/ EntryOf(p) \in DOMAIN f)

\* path.is_symlink()
IsSymlink(f, p) ==
    BelowRoot(Taken(p)) /\ EntryOf(p) \in DOMAIN f /\ f[EntryOf(p)].kind = "link"

\* path.readlink(): the target as it is stored
ReadLink(f, p) == ToPath(f[EntryOf(p)].head)

\* where the link at p leads, as an absolute path
LinkTarget(f, p) ==
    IF ReadLink(f, p) # <<>> /\ ReadLink(f, p)[1] = "/" THEN ReadLink(f, p)
    ELSE Normal(<<"/">>, Tail(Parent(p)) \o ReadLink(f, p))

\* at most this many links are followed (ELOOP)
MaxFollow == 4

\* the entry os.stat reaches from p, <<>> when there is none
RECURSIVE Follow(_, _, _)
Follow(f, p, n) ==
    IF ~LExists(f, p) \/ n > MaxFollow THEN <<>>
    ELSE IF IsSymlink(f, p) THEN Follow(f, LinkTarget(f, p), n + 1)
    ELSE Taken(p)

\* path.exists()
PathExists(f, p) == Follow(f, p, 0) # <<>>

\* path.is_dir()
PathIsDir(f, p) ==
    LET At(q) == q # <<>> /\ (Len(q) = Len(RootParts) \/ f[RootRelative(q)].kind = "dir")
    IN  At(Follow(f, p, 0))

\* a directory in which the user may create and remove entries
PathWritable(f, d) == PathIsDir(f, d) /\ DirWritable(f, RootRelative(Follow(f, d, 0)))

LinkNode(target) ==
    [kind |-> "link", mode |-> \o777, size |-> Len(target), head |-> target,
     rest |-> NoBytes]

\* dst.symlink_to(target)
symlink_to(f, dst, target) ==
    IF LExists(f, dst) THEN [raised |-> "FileExistsError", fs |-> f]
    ELSE IF ~PathExists(f, Parent(dst)) THEN [raised |-> "FileNotFoundError", fs |-> f]
    ELSE IF ~PathIsDir(f, Parent(dst)) THEN [raised |-> "NotADirectoryError", fs |-> f]
    ELSE IF ~PathWritable(f, Parent(dst)) THEN [raised |-> "PermissionError", fs |-> f]
    ELSE [raised |-> None, fs |-> (EntryOf(dst) :> LinkNode(target)) @@ f]

\* dst.unlink(), of an entry that is there
unlink(f, dst) ==
    IF ~IsSymlink(f, dst) /\ PathIsDir(f, dst)
    THEN [raised |-> "IsADirectoryError", fs |-> f]
    ELSE IF ~PathWritable(f, Parent(dst)) THEN [raised |-> "PermissionError", fs |-> f]
    ELSE [raised |-> None,
          fs |-> [q \in DOMAIN f \ {EntryOf(dst)} |-> f[q]]]

\* path.mkdir(parents=True, exist_ok=True), from the i-th part of path on
RECURSIVE mkdir(_, _, _)
mkdir(f, path, i) ==
    LET p == SubSeq(path, 1, i)
    IN  IF i > Len(path) THEN [raised |-> None, fs |-> f]
        ELSE IF PathIsDir(f, p) THEN mkdir(f, path, i + 1)
        ELSE IF LExists(f, p)
        THEN [raised |-> IF i = Len(path) THEN "FileExistsError" ELSE "NotADirectoryError",
              fs |-> f]
        ELSE IF ~PathWritable(f, Parent(p)) THEN [raised |-> "PermissionError", fs |-> f]
        ELSE mkdir((EntryOf(p) :> Dir(\o775)) @@ f, path, i + 1)

(***************************************************************************)
(* pwf_link.py                                                             *)
(***************************************************************************)
tags == {"@new", "@original", "@lab", "@album", "@print"}

tag_dirs(tag) ==
    CASE tag = "@new" -> "0_new"
      [] tag = "@original" -> "1_original"
      [] tag = "@lab" -> "2_lab"
      [] tag = "@album" -> "3_album"
      [] tag = "@print" -> "4_print"

\* common.path_is_tag(path)
path_is_tag(path) == Ch(StrPath(path), 1) = "@"

\* dst.replace(ftype, f"2_original_{ftype}"): every occurrence in the text of
\* the path is rewritten
LabTypeDir(dst, ftype) == Replace(dst, ftype, "2_original_" \o ftype)

\* _tag_to_path(src_path, tag): the destination, or the error
_tag_to_path(src_path, tag) ==
    LET Raise(text) == [raised |-> text, path |-> <<>>]
        Typed(dst, ftype) ==
            IF tag # "@lab" THEN [raised |-> None, path |-> ToPath(dst)]
            ELSE IF ftype = None
            THEN Raise("ValueError: Cannot determine file type dir from src_path!")
            ELSE [raised |-> None, path |-> ToPath(LabTypeDir(dst, ftype))]
        Staged(src, dst, src_info) ==
            IF src_info.state # "LAB" THEN Typed(dst, src_info.file_type)
            ELSE IF ~Contains(src, "3_final_")
            THEN Raise("ValueError: Not allowed to link from this src_path!")
            ELSE Typed(Replace(dst, "3_final_", ""), src_info.file_type)
        Parsed(src, r) ==
            IF r.raised # None THEN Raise(r.raised)
            ELSE IF tag \notin tags THEN Raise("ValueError: Invalid tag provided!")
            ELSE IF r.info.event = None
            THEN Raise("ValueError: Linking to tag only allowed from within event dir!")
            ELSE Staged(src, Replace(src, state_dirs[r.info.state], tag_dirs(tag)), r.info)
    IN  Parsed(StrPath(src_path), parse_path(src_path))

allowed_state_links_WithNew ==
    {<<"NEW", "LAB">>, <<"ORIGINAL", "LAB">>, <<"ORIGINAL", "ALBUM">>,
     <<"ORIGINAL", "PRINT">>, <<"LAB", "ALBUM">>, <<"LAB", "PRINT">>}

allowed_state_links ==
    {<<"ORIGINAL", "LAB">>, <<"ORIGINAL", "ALBUM">>, <<"ORIGINAL", "PRINT">>,
     <<"LAB", "ALBUM">>, <<"LAB", "PRINT">>}

\* _check_is_allowed(src_path, dst_path): "ok" or the error
_check_is_allowed(f, src_path, dst_path) ==
    LET Infos(s, d) ==
            IF s.raised # None THEN s.raised
            ELSE IF d.raised # None THEN d.raised
            ELSE IF ~PathExists(f, src_path) THEN "ValueError: src_path does not exist!"
            ELSE IF <<s.info.state, d.info.state>> \notin allowed_state_links
            THEN "ValueError: Not allowed to link from src_path to dst_path!"
            ELSE IF s.info.state = "LAB" /\ ~Contains(StrPath(src_path), "3_final_")
            THEN "ValueError: Not allowed to link from this src_path!"
            ELSE IF d.info.state = "LAB" /\ ~Contains(StrPath(dst_path), "2_original_")
            THEN "ValueError: Not allowed to link to this dst_path!"
            ELSE OK
    IN  Infos(parse_path(src_path), parse_path(dst_path))

\* Path("../" * n)
RECURSIVE UpSteps(_)
UpSteps(n) == IF n <= 0 THEN <<>> ELSE <<"..">> \o UpSteps(n - 1)

\* len(rel.parents) for a relative path
NumParents(rel) == Len(rel)

\* a mutant of _relative_to: one step up for every part of dst
_relative_to_OneTooMany(src, dst) ==
    IF ~BelowRoot(src) \/ ~BelowRoot(dst)
    THEN [raised |-> "ValueError: not in the subpath of the root", path |-> <<>>]
    ELSE [raised |-> None,
          path |-> UpSteps(NumParents(RootRelative(dst))) \o RootRelative(src)]

\* _relative_to(src, dst)
_relative_to(src, dst) ==
    IF ~BelowRoot(src) \/ ~BelowRoot(dst)
    THEN [raised |-> "ValueError: not in the subpath of the root", path |-> <<>>]
    ELSE [raised |-> None,
          path |-> UpSteps(NumParents(RootRelative(dst)) - 1) \o RootRelative(src)]

\* _link_to_file(src_path, dst_path, is_forced)
_link_to_file(f, src_path, dst_path, is_forced) ==
    LET Caught(r) == IF r.raised = "FileExistsError" THEN [raised |-> None, fs |-> r.fs] ELSE r
        Linked(g, rel_src) ==
            IF rel_src.raised # None THEN [raised |-> rel_src.raised, fs |-> g]
            ELSE Caught(symlink_to(g, dst_path, StrPath(rel_src.path)))
        Unlinked(u, src) ==
            IF u.raised # None THEN u ELSE Linked(u.fs, _relative_to(src, dst_path))
        Read(src) ==
            Unlinked(IF is_forced /\ LExists(f, dst_path) THEN unlink(f, dst_path)
                     ELSE [raised |-> None, fs |-> f],
                     src)
    IN  Read(IF IsSymlink(f, src_path) THEN ReadLink(f, src_path) ELSE src_path)

\* the entries of a directory: what src_path.glob("*") yields
Children(f, dir) ==
    IF ~PathIsDir(f, dir) THEN {}
    ELSE {dir \o <<Name(q)>> : q \in {k \in DOMAIN f : Len(k) > 0 /\
                                        Parent(k) = RootRelative(Follow(f, dir, 0))}}

\* the orders in which a directory can list the entries of S
Listings(S) ==
    {o \in [1..Cardinality(S) -> S] : \A i, j \in 1..Cardinality(S) : i # j => o[i] # o[j]}

\* src_path.glob("*.*")
DottedChildren(f, dir) == {p \in Children(f, dir) : Contains(Name(p), ".")}

\* the loop of _link_to_files_in_dir from the i-th entry listed on; no_filt
\* stands for filt is None
RECURSIVE LinkLoop(_, _, _, _, _, _, _)
LinkLoop(f, listing, i, dst_path, is_forced, no_filt, filt) ==
    LET After(r) ==
            IF r.raised # None THEN r
            ELSE LinkLoop(r.fs, listing, i + 1, dst_path, is_forced, no_filt, filt)
        Entry(p) ==
            IF ~no_filt /\ ~\E x \in filt : Contains(StrPath(p), x)
            THEN LinkLoop(f, listing, i + 1, dst_path, is_forced, no_filt, filt)
            ELSE After(_link_to_file(f, p, dst_path \o <<Name(p)>>, is_forced))
    IN  IF i > Len(listing) THEN [raised |-> None, fs |-> f] ELSE Entry(listing[i])

\* _link_to_files_in_dir(src_path, dst_path, is_forced, filt), the directory
\* listed in the order given
_link_to_files_in_dir(f, listing, dst_path, is_forced, no_filt, filt) ==
    LET Made(m) ==
            IF m.raised # None THEN m
            ELSE LinkLoop(m.fs, listing, 1, dst_path, is_forced, no_filt, filt)
    IN  Made(mkdir(f, dst_path, Len(RootParts) + 1))

\* _get_filter_by_lab_preview(preview_path): the names of the previews, None
\* among them for a name get_orig_name raises on
_get_filter_by_lab_preview(f, preview_path) ==
    {get_orig_name(Name(p), TRUE) :
        p \in {c \in Children(f, preview_path) : EndsWith(Name(c), ".jpg")}}

\* common.pwf_root_path / "2_lab" / str(year) / event / "1_preview/"
PreviewPath(year, event) == RootParts \o <<"2_lab", IntToStr(year), event, "1_preview">>

\* pwf_link.main: the error or OK, the steps passed, the destination used and
\* the archive afterwards
main_link(f, src_path, dst_path, is_all, is_forced, listing) ==
    LET Failed(text, dst, ran) == [outcome |-> text, ran |-> ran, dst |-> dst, fs |-> f]
        Done(r, dst, ran) ==
            [outcome |-> IF r.raised = None THEN OK ELSE r.raised,
             ran |-> ran \o <<"link">>, dst |-> dst, fs |-> r.fs]
        Linking(dst, ran, filter) ==
            IF filter.raised # None THEN Failed(filter.raised, dst, ran)
            ELSE Done(IF PathIsDir(f, src_path)
                      THEN _link_to_files_in_dir(f, listing, dst, is_forced,
                                                 filter.none, filter.filt)
                      ELSE _link_to_file(f, src_path,
                                         IF PathIsDir(f, dst) THEN dst \o <<Name(src_path)>>
                                         ELSE dst,
                                         is_forced),
                      dst, ran)
        Previews(filt) ==
            IF None \in filt
            THEN [raised |-> "RuntimeError: Unable to determine orig name", none |-> FALSE,
                  filt |-> {}]
            ELSE [raised |-> None, none |-> FALSE, filt |-> filt]
        Filter(src_info, dst_info) ==
            IF dst_info.state = "LAB" /\ ~is_all /\ src_info.file_type \in {"raw", "jpg"}
            THEN IF src_info.year = NoYear
                 THEN [raised |-> "ValueError: src_path must contain year!", none |-> FALSE,
                       filt |-> {}]
                 ELSE IF src_info.event = None
                 THEN [raised |-> "ValueError: src_path must contain event dir!",
                       none |-> FALSE, filt |-> {}]
                 ELSE Previews(_get_filter_by_lab_preview(
                                   f, PreviewPath(src_info.year, src_info.event)))
            ELSE [raised |-> None, none |-> TRUE, filt |-> {}]
        Allowed(dst, ran, a) ==
            IF a # OK THEN Failed(a, dst, ran)
            ELSE Linking(dst, ran \o <<"allowed">>,
                         Filter(parse_path(src_path).info, parse_path(dst).info))
        Resolved(t, ran) ==
            IF t.raised # None THEN Failed(t.raised, <<>>, <<>>)
            ELSE Allowed(t.path, ran, _check_is_allowed(f, src_path, t.path))
    IN  IF path_is_tag(dst_path)
        THEN Resolved(_tag_to_path(src_path, StrPath(dst_path)), <<"tag">>)
        ELSE Resolved([raised |-> None, path |-> dst_path], <<>>)

(***************************************************************************)
(* The archives the commands start from, and the commands.                 *)
(***************************************************************************)
\* at most this many files in the event directory
MaxFiles == 2

\* at most this many runs of protect (each appends to the manifest)
MaxProtects == 2

EventName == "2024-10-30_ev"

NewEvent == <<"0_new", EventName>>

YearDir == <<"1_original", "2024">>

\* the files an event directory can hold, relative to it
CandidateFiles ==
    {<<"jpg", "D1.jpg">>, <<"raw", "D2.NEF">>, <<"jpg", "D2.jpg">>,
     <<"jpg", "D 3.jpg">>, <<"raw", "D1.jpg">>}

\* what they hold: size, first PartialRead bytes, the bytes after them.  The
\* three files called D1.jpg and D 3.jpg are copies of one picture.
FileContents ==
    [r \in CandidateFiles |->
        CASE r = <<"raw", "D2.NEF">> -> [size |-> 9500, head |-> "b", rest |-> "d"]
          [] r = <<"jpg", "D2.jpg">> -> [size |-> 9000, head |-> "c", rest |-> "d"]
          [] OTHER -> [size |-> 9000, head |-> "a", rest |-> "d"]]

File(mode, c) ==
    [kind |-> "file", mode |-> mode, size |-> c.size, head |-> c.head, rest |-> c.rest]

\* an event directory at base with the files of F, as created (umask 002)
EventTree(base, F) ==
    LET dirs == {base} \cup {base \o <<r[1]>> : r \in F}
        files == {base \o r : r \in F}
    IN  [p \in dirs \cup files |->
            IF p \in dirs THEN Dir(\o775)
            ELSE File(\o664, FileContents[SubSeq(p, Len(base) + 1, Len(p))])]

StageDirs == [p \in {<<d>> : d \in StageDirNames} |-> Dir(\o775)]

\* where the event lies: in 0_new (the year directory missing or there), or
\* in 1_original/2024 already
Locations == {"new", "new_year", "original"}

FreshArchive(location, F) ==
    (IF location = "original" THEN EventTree(YearDir \o <<EventName>>, F)
     ELSE EventTree(NewEvent, F))
        @@ (IF location = "new" THEN StageDirs ELSE (YearDir :> Dir(\o775)) @@ StageDirs)

FreshArchives ==
    {FreshArchive(location, F) :
        location \in Locations,
        F \in {X \in SUBSET CandidateFiles : Cardinality(X) <= MaxFiles}}

NoCmd ==
    [op |-> "none", path |-> <<>>, dst |-> <<>>, to |-> <<>>, ignorelist |-> {},
     onlylist |-> {}, flags |-> {}, outcome |-> OK, ran |-> <<>>]

NoRes ==
    [raised |-> "pending", info |-> Pwf_path_info, checklist |-> {}, path |-> <<>>,
     name |-> "", groups |-> {}]

NoArg ==
    [parts |-> <<>>, ignorelist |-> {}, onlylist |-> {}, dst |-> <<>>, tag |-> "",
     name |-> "", order |-> <<>>]

Init ==
    /\ fs \in FreshArchives
    /\ last = NoCmd
    /\ nops = 0
    /\ arg = NoArg
    /\ res = NoRes

Flags(forced, all, fix, nono, keep) ==
    (IF forced THEN {"forced"} ELSE {}) \cup (IF all THEN {"all"} ELSE {})
        \cup (IF fix THEN {"fix"} ELSE {}) \cup (IF nono THEN {"nono"} ELSE {})
        \cup (IF keep THEN {"keep"} ELSE {})

\* pwf_check.py [-i IGNORELIST | -o ONLYLIST] [-f] [-n] path
Check(path, ignorelist, onlylist, do_fix, is_nono) ==
    \E order \in IF do_fix /\ ~is_nono THEN ReplacementOrders ELSE {<<>>} :
        \E r \in {main_check(fs, path, ignorelist, onlylist, do_fix, is_nono, order)} :
            /\ fs' = r.fs
            /\ last' = [NoCmd EXCEPT !.op = "check", !.path = path,
                            !.ignorelist = ignorelist, !.onlylist = onlylist,
                            !.flags = Flags(FALSE, FALSE, do_fix, is_nono, FALSE),
                            !.outcome = r.outcome, !.ran = r.ran]
            /\ UNCHANGED <<nops, arg, res>>

\* pwf_protect.py [-f] path
Protect(path, is_forced) ==
    \E r \in {protect(fs, path, is_forced)} :
        /\ nops < MaxProtects
        /\ nops' = nops + 1
        /\ fs' = r.fs
        /\ last' = [NoCmd EXCEPT !.op = "protect", !.path = path,
                        !.flags = Flags(is_forced, FALSE, FALSE, FALSE, FALSE),
                        !.outcome = r.outcome]
        /\ UNCHANGED <<arg, res>>

\* pwf_protect.py -u [-a] path
Unprotect(path, is_all) ==
    /\ fs' = unprotect(fs, path, is_all)
    /\ last' = [NoCmd EXCEPT !.op = "unprotect", !.path = path,
                    !.flags = Flags(FALSE, is_all, FALSE, FALSE, FALSE)]
    /\ UNCHANGED <<nops, arg, res>>

\* pwf_import.py [-i IGNORELIST] [-k] [-n] path
Import(path, has_ignorelist, ignorelist, keep_unprotected, is_nono) ==
    \E r \in {main_import(fs, path, has_ignorelist, ignorelist, keep_unprotected, is_nono)} :
        /\ fs' = r.fs
        /\ last' = [NoCmd EXCEPT !.op = "import", !.path = path,
                        !.ignorelist = ignorelist,
                        !.flags = Flags(FALSE, FALSE, FALSE, is_nono, keep_unprotected)
                                    \cup (IF has_ignorelist THEN {"ignorelist"} ELSE {}),
                        !.outcome = r.outcome, !.ran = r.steps]
        /\ UNCHANGED <<nops, arg, res>>

\* the commands that change the archive, run one after the other
Next ==
    \/ \E path \in {NewEvent, YearDir}, is_nono \in BOOLEAN :
            Check(path, {}, {}, TRUE, is_nono)
    \/ \E is_forced \in BOOLEAN : Protect(YearDir, is_forced)
    \/ \E is_all \in BOOLEAN : Unprotect(YearDir, is_all)
    \/ \E ignorelist \in {{}, {"raw"}}, keep_unprotected, is_nono \in BOOLEAN :
            Import(NewEvent, ignorelist # {}, ignorelist, keep_unprotected, is_nono)

Spec == Init /\ [][Next]_vars

(***************************************************************************)
(* One check request on an archive: fresh, protected, or opened again.     *)
(***************************************************************************)
ProtectedArchives == {protect(a, YearDir, TRUE).fs : a \in FreshArchives}

ReopenedArchives == {unprotect(a, YearDir, TRUE) : a \in ProtectedArchives}

InitCheck ==
    /\ fs \in FreshArchives \cup ProtectedArchives \cup ReopenedArchives
    /\ last = NoCmd
    /\ nops = 0
    /\ arg = NoArg
    /\ res = NoRes

CheckPaths ==
    {NewEvent, YearDir, YearDir \o <<EventName>>, <<"2_lab">>, <<"3_album">>, <<"4_print">>}

IgnoreLists ==
    {{}, {"prot"}, {"dup"}, {"path", "name"}, {"raw"}, {"cs"}, {"cs", "prot"},
     things_to_check}

OnlyLists ==
    {{"cs"}, {"miss"}, {"cs", "miss"}, {"name"}, {"prot"}, {"dup", "raw", "path"}}

\* <<ignorelist, onlylist>>
CheckRequests ==
    {<<i, {}>> : i \in IgnoreLists} \cup {<<{}, o>> : o \in OnlyLists}
        \cup {<<{"dup"}, {"dup"}>>, <<{"name"}, {"name", "cs", "miss"}>>}

\* <<do_fix, is_nono>>
FixFlags == {<<FALSE, FALSE>>, <<TRUE, FALSE>>, <<TRUE, TRUE>>}

NextCheck ==
    /\ last.op = "none"
    /\ \E path \in CheckPaths, a \in CheckRequests, x \in FixFlags :
            Check(path, a[1], a[2], x[1], x[2])

SpecCheck == InitCheck /\ [][NextCheck]_vars

(***************************************************************************)
(* parse_path and _get_checklist applied to one input.                     *)
(***************************************************************************)
\* at most this many parts in a path
MaxParts == 3

\* what a part of a path can be
PartNames ==
    StageDirNames \cup {"/", "pwf", "2024", "2024-10-30_ev", "jpg", "2024_raw", "new",
                        "2023", "2023-01-02_ev"}

RECURSIVE PathsOfLength(_)
PathsOfLength(n) ==
    IF n = 0 THEN {<<>>}
    ELSE {<<part>> \o rest : part \in PartNames, rest \in PathsOfLength(n - 1)}

InitParse ==
    /\ \E n \in 1..MaxParts : \E parts \in PathsOfLength(n) :
            arg = [NoArg EXCEPT !.parts = parts]
    /\ res = NoRes
    /\ fs = StageDirs
    /\ last = NoCmd
    /\ nops = 0

\* common.parse_path(path)
Parse ==
    /\ res.raised = "pending"
    /\ \E r \in {parse_path(arg.parts)} :
            res' = [NoRes EXCEPT !.raised = r.raised, !.info = r.info]
    /\ UNCHANGED <<fs, last, nops, arg>>

NextParse == Parse

SpecParse == InitParse /\ [][NextParse]_vars

InitChecklist ==
    /\ \E d \in StageDirNames, ignorelist, onlylist \in SUBSET things_to_check :
            arg = [NoArg EXCEPT !.parts = RootParts \o <<d, EventName>>,
                                !.ignorelist = ignorelist, !.onlylist = onlylist]
    /\ res = NoRes
    /\ fs = StageDirs
    /\ last = NoCmd
    /\ nops = 0

\* pwf_check._get_checklist(path, ignorelist, onlylist)
GetChecklist ==
    /\ res.raised = "pending"
    /\ \E r \in {_get_checklist(arg.parts, arg.ignorelist, arg.onlylist)} :
            res' = [NoRes EXCEPT !.raised = r.raised, !.checklist = r.checklist]
    /\ UNCHANGED <<fs, last, nops, arg>>

NextChecklist == GetChecklist

SpecChecklist == InitChecklist /\ [][NextChecklist]_vars

(***************************************************************************)
(* _tag_to_path and _relative_to applied to one input.                     *)
(***************************************************************************)
\* the names a source path is made of below a stage directory
TagYears == {"2024"}

TagEvents == {"2024-10-30_ev", "2024-10-30_raw"}

TagTypeDirs == type_dirs \cup {"3_final_jpg", "2_original_raw", "other"}

TagFileNames == {"D1.jpg", "D2.NEF", "jpg_1.mov", "track.mp3"}

\* the source paths: a stage, then a year, an event, a type directory and a
\* file, cut after any of them
TagSources ==
    LET full == {<<d, y, e, t, n>> :
                    d \in {"0_new", "1_original", "2_lab"}, y \in TagYears,
                    e \in TagEvents, t \in TagTypeDirs, n \in TagFileNames}
    IN  {RootParts \o SubSeq(p, 1, k) : p \in full, k \in 2..5}

InitTag ==
    /\ \E src \in TagSources, tag \in tags \cup {"@asdf"} :
            arg = [NoArg EXCEPT !.parts = src, !.tag = tag]
    /\ res = NoRes
    /\ fs = StageDirs
    /\ last = NoCmd
    /\ nops = 0

\* pwf_link._tag_to_path(src_path, tag)
TagToPath ==
    /\ res.raised = "pending"
    /\ \E r \in {_tag_to_path(arg.parts, arg.tag)} :
            res' = [NoRes EXCEPT !.raised = r.raised, !.path = r.path]
    /\ UNCHANGED <<fs, last, nops, arg>>

NextTag == TagToPath

SpecTag == InitTag /\ [][NextTag]_vars

\* at most this many parts below the root in a path given to _relative_to
MaxDepth == 4

RelativeNames == {"a", "b", "c"}

RECURSIVE RelativePaths(_)
RelativePaths(n) ==
    IF n = 0 THEN {<<>>}
    ELSE RelativePaths(n - 1)
            \cup {p \o <<x>> : p \in {q \in RelativePaths(n - 1) : Len(q) = n - 1},
                               x \in RelativeNames}

InitRelative ==
    /\ \E src \in RelativePaths(MaxDepth), dst \in RelativePaths(MaxDepth) \ {<<>>} :
            arg = [NoArg EXCEPT !.parts = RootParts \o src, !.dst = RootParts \o dst]
    /\ res = NoRes
    /\ fs = StageDirs
    /\ last = NoCmd
    /\ nops = 0

\* pwf_link._relative_to(src, dst)
RelativeTo ==
    /\ res.raised = "pending"
    /\ \E r \in {_relative_to(arg.parts, arg.dst)} :
            res' = [NoRes EXCEPT !.raised = r.raised, !.path = r.path]
    /\ UNCHANGED <<fs, last, nops, arg>>

NextRelative == RelativeTo

SpecRelative == InitRelative /\ [][NextRelative]_vars

(***************************************************************************)
(* One link request on an archive with an event in 1_original and its lab  *)
(* folder, before and after earlier link requests.                         *)
(***************************************************************************)
OriginalEvent == RootParts \o YearDir \o <<EventName>>

LabEvent == RootParts \o <<"2_lab", "2024", EventName>>

\* the directories and files of a tree, as created (umask 002)
Tree(dirs, files) ==
    [p \in dirs \cup files |->
        IF p \in dirs THEN Dir(\o775)
        ELSE File(\o664, [size |-> 9000, head |-> "e", rest |-> "d"])]

\* 2_lab/2024/EVENT with a 3_final_jpg folder, and with previews or without
LabTree(with_preview) ==
    Tree({<<"2_lab", "2024">>, <<"2_lab", "2024", EventName>>,
          <<"2_lab", "2024", EventName, "3_final_jpg">>}
            \cup (IF with_preview THEN {<<"2_lab", "2024", EventName, "1_preview">>}
                  ELSE {}),
         {<<"2_lab", "2024", EventName, "3_final_jpg", "F1.jpg">>}
            \cup (IF with_preview
                  THEN {<<"2_lab", "2024", EventName, "1_preview", "D1.jpg">>}
                  ELSE {}))

\* the archive of the link tests: the event in 1_original (protected or not),
\* its lab folder, an event in 0_new and a year in 3_album
LinkArchive(is_protected, with_preview) ==
    LET Original(a) == IF is_protected THEN protect(a, YearDir, TRUE).fs ELSE a
    IN  Original(EventTree(YearDir \o <<EventName>>,
                           {<<"jpg", "D1.jpg">>, <<"jpg", "D2.jpg">>, <<"raw", "D2.NEF">>})
                    @@ (YearDir :> Dir(\o775)) @@ StageDirs)
            @@ LabTree(with_preview)
            @@ EventTree(NewEvent, {<<"jpg", "D1.jpg">>})
            @@ Tree({<<"3_album", "2024">>}, {})

FreshLinkArchives == {LinkArchive(x, y) : x, y \in BOOLEAN}

\* the link requests that prepare the archive: the jpg folder of the event
\* linked to @lab, then the final pictures linked to @album
Preparations ==
    <<[src |-> OriginalEvent \o <<"jpg">>, dst |-> <<"@lab">>, is_all |-> TRUE],
      [src |-> LabEvent \o <<"3_final_jpg">>, dst |-> <<"@album">>, is_all |-> FALSE]>>

InitLink ==
    /\ fs \in FreshLinkArchives
    /\ last = NoCmd
    /\ nops = 0
    /\ arg = NoArg
    /\ res = NoRes

LinkSources ==
    {OriginalEvent, OriginalEvent \o <<"jpg">>, OriginalEvent \o <<"jpg", "D1.jpg">>,
     OriginalEvent \o <<"jpg", "D9.jpg">>, OriginalEvent \o <<"raw">>,
     LabEvent, LabEvent \o <<"3_final_jpg">>, LabEvent \o <<"3_final_jpg", "F1.jpg">>,
     LabEvent \o <<"2_original_jpg">>, LabEvent \o <<"1_preview", "D1.jpg">>,
     RootParts \o NewEvent \o <<"jpg">>, RootParts \o <<"3_album", "2024">>,
     RootParts \o <<"tmp">>}

LinkDestinations ==
    {<<t>> : t \in tags \cup {"@asdf"}}
        \cup {LabEvent \o <<"2_original_jpg">>, LabEvent \o <<"other">>,
              RootParts \o <<"3_album", "2024">>,
              RootParts \o <<"3_album", "2024", EventName, "jpg">>,
              RootParts \o <<"4_print", "2024">>, OriginalEvent \o <<"jpg">>,
              RootParts \o NewEvent, RootParts \o <<"tmp">>}

\* pwf_link.py [-a] [-f] src_path dst_path; the requests are counted
Link(src_path, dst_path, is_all, is_forced) ==
    \E listing \in Listings(DottedChildren(fs, src_path)) :
        \E r \in {main_link(fs, src_path, dst_path, is_all, is_forced, listing)} :
            /\ fs' = r.fs
            /\ last' = [NoCmd EXCEPT !.op = "link", !.path = src_path, !.to = dst_path,
                            !.dst = r.dst,
                            !.flags = Flags(is_forced, is_all, FALSE, FALSE, FALSE),
                            !.outcome = r.outcome, !.ran = r.ran]
            /\ nops' = nops + 1
            /\ UNCHANGED <<arg, res>>

\* the next preparing request is made, nops of them made so far
Prepare ==
    /\ last.op = "none"
    /\ nops < Len(Preparations)
    /\ \E c \in {Preparations[nops + 1]} :
            \E listing \in Listings(DottedChildren(fs, c.src)) :
                \E r \in {main_link(fs, c.src, c.dst, c.is_all, FALSE, listing)} :
                    fs' = r.fs
    /\ nops' = nops + 1
    /\ UNCHANGED <<last, arg, res>>

NextLink ==
    \/ Prepare
    \/ /\ last.op = "none"
       /\ \E src_path \in LinkSources, dst_path \in LinkDestinations,
             is_all, is_forced \in BOOLEAN :
               Link(src_path, dst_path, is_all, is_forced)

SpecLink == InitLink /\ [][NextLink]_vars

(***************************************************************************)
(* One call of _link_to_file on an archive that holds files, the links of  *)
(* earlier link requests, and links the user made with absolute targets.   *)
(***************************************************************************)
AlbumYear == RootParts \o <<"3_album", "2024">>

\* in 3_album/2024: a picture, a folder, a link to a picture of 1_original
\* and a link to that link, both with absolute targets
AlbumExtras ==
    Tree({<<"3_album", "2024", "sub">>}, {<<"3_album", "2024", "E1.jpg">>})
        @@ (<<"3_album", "2024", "abs1">> :>
                LinkNode(StrPath(OriginalEvent \o <<"jpg", "D1.jpg">>)))
        @@ (<<"3_album", "2024", "abs2">> :> LinkNode(StrPath(AlbumYear \o <<"abs1">>)))

LinkFileArchives == {AlbumExtras @@ a : a \in FreshLinkArchives}

InitLinkFile ==
    /\ fs \in LinkFileArchives
    /\ last = NoCmd
    /\ nops = 0
    /\ arg = NoArg
    /\ res = NoRes

LinkFileSources ==
    {OriginalEvent \o <<"jpg", "D1.jpg">>, OriginalEvent \o <<"jpg", "D9.jpg">>,
     LabEvent \o <<"2_original_jpg", "D1.jpg">>, LabEvent \o <<"3_final_jpg", "F1.jpg">>,
     AlbumYear \o <<"abs1">>, AlbumYear \o <<"abs2">>}

LinkFileDestinations ==
    {AlbumYear \o <<"new.jpg">>, AlbumYear \o <<"E1.jpg">>, AlbumYear \o <<"sub">>,
     AlbumYear \o <<"abs2">>, AlbumYear \o <<EventName, "jpg", "F1.jpg">>,
     RootParts \o <<"4_print", "2024", "D1.jpg">>, OriginalEvent \o <<"jpg", "D2.jpg">>}

\* pwf_link._link_to_file(src_path, dst_path, is_forced)
LinkFile(src_path, dst_path, is_forced) ==
    \E r \in {_link_to_file(fs, src_path, dst_path, is_forced)} :
        /\ fs' = r.fs
        /\ last' = [NoCmd EXCEPT !.op = "link_to_file", !.path = src_path,
                        !.dst = dst_path,
                        !.flags = Flags(is_forced, FALSE, FALSE, FALSE, FALSE),
                        !.outcome = IF r.raised = None THEN OK ELSE r.raised]
        /\ UNCHANGED <<nops, arg, res>>

NextLinkFile ==
    \/ Prepare
    \/ /\ last.op = "none"
       /\ \E src_path \in LinkFileSources, dst_path \in LinkFileDestinations,
             is_forced \in BOOLEAN :
               LinkFile(src_path, dst_path, is_forced)

SpecLinkFile == InitLinkFile /\ [][NextLinkFile]_vars

(***************************************************************************)
(* One check category applied to one event directory of 0_new.             *)
(***************************************************************************)
\* at most this many pictures in the directory the duplicates check is run on
MaxPictures == 4

PictureNames == {"P1.jpg", "P2.jpg", "P3.jpg", "P4.jpg"}

\* what a picture can hold: two sizes, two beginnings (its first PartialRead
\* bytes), two endings
PictureContents ==
    {[size |-> n, head |-> h, rest |-> "d"] : n \in {9000, 9500}, h \in {"a", "b"}}
        \cup {[size |-> 9000, head |-> "a", rest |-> "e"]}

\* 0_new/EVENT/jpg with the pictures of names, holding what c gives them
PictureArchive(names, c) ==
    [p \in {NewEvent \o <<"jpg", n>> : n \in names} |-> File(\o664, c[Name(p)])]
        @@ Tree({NewEvent, NewEvent \o <<"jpg">>}, {}) @@ StageDirs

PictureArchives ==
    {PictureArchive(names, c) :
        names \in {X \in SUBSET PictureNames : Cardinality(X) <= MaxPictures},
        c \in [PictureNames -> PictureContents]}

InitDuplicates ==
    /\ fs \in PictureArchives
    /\ arg = [NoArg EXCEPT !.parts = NewEvent]
    /\ res = NoRes
    /\ last = NoCmd
    /\ nops = 0

\* pwf_check._check_duplicates(path); the groups it reports are recorded
CheckDuplicates ==
    /\ res.raised = "pending"
    /\ res' = [NoRes EXCEPT !.raised = _check_duplicates(fs, arg.parts),
                            !.groups = DuplicateGroups(fs, arg.parts)]
    /\ UNCHANGED <<fs, last, nops, arg>>

NextDuplicates == CheckDuplicates

SpecDuplicates == InitDuplicates /\ [][NextDuplicates]_vars

\* the entries the raw-derivatives check is run on, relative to the event
RawCandidates ==
    {<<"raw", "DSC_100.NEF">>, <<"jpg", "DSC_100.jpg">>, <<"jpg", "DSC_1000.jpg">>,
     <<"raw", "100.NEF">>, <<"raw", "a.NEF">>, <<"jpg", "X_1.jpg">>, <<"raw", "X_2.CR2">>}

RawArchives ==
    {[p \in {NewEvent \o r : r \in F} |->
            File(\o664, [size |-> 9000, head |-> "a", rest |-> "d"])]
        @@ Tree({NewEvent} \cup {NewEvent \o <<r[1]>> : r \in F}, {}) @@ StageDirs :
        F \in SUBSET RawCandidates}

InitRaw ==
    /\ fs \in RawArchives
    /\ arg = [NoArg EXCEPT !.parts = NewEvent]
    /\ res = NoRes
    /\ last = NoCmd
    /\ nops = 0

\* pwf_check._check_raw_derivatives(path)
CheckRawDerivatives ==
    /\ res.raised = "pending"
    /\ res' = [NoRes EXCEPT !.raised = _check_raw_derivatives(fs, arg.parts)]
    /\ UNCHANGED <<fs, last, nops, arg>>

NextRaw == CheckRawDerivatives

SpecRaw == InitRaw /\ [][NextRaw]_vars

\* the entry the protection check is run on
ModePath == <<"1_original", "entry">>

\* the permission bits an entry can have (st_mode & 0o7777)
Modes == 0..4095

InitProtection ==
    /\ \E mode \in Modes, kind \in {"dir", "file"} :
            fs = (ModePath :> [Dir(mode) EXCEPT !.kind = kind]) @@ StageDirs
    /\ arg = [NoArg EXCEPT !.parts = ModePath]
    /\ res = NoRes
    /\ last = NoCmd
    /\ nops = 0

\* pwf_check._check_protection(path)
CheckProtection ==
    /\ res.raised = "pending"
    /\ res' = [NoRes EXCEPT !.raised = _check_protection(fs, arg.parts)]
    /\ UNCHANGED <<fs, last, nops, arg>>

NextProtection == CheckProtection

SpecProtection == InitProtection /\ [][NextProtection]_vars

\* at most this many characters in a name given to the replacement table
MaxNameLen == 4

NameChars == {"a", "-", "_", " ", "&"}

RECURSIVE NamesOfLength(_)
NamesOfLength(n) ==
    IF n = 0 THEN {""} ELSE {c \o rest : c \in NameChars, rest \in NamesOfLength(n - 1)}

InitFixName ==
    /\ \E n \in 1..MaxNameLen : \E name \in NamesOfLength(n), order \in ReplacementOrders :
            arg = [NoArg EXCEPT !.name = name, !.order = order]
    /\ res = NoRes
    /\ fs = StageDirs
    /\ last = NoCmd
    /\ nops = 0

\* the replacement loop of _fix_names applied to a name
FixName ==
    /\ res.raised = "pending"
    /\ res' = [NoRes EXCEPT !.raised = None, !.name = FixedName(arg.name, arg.order, 1)]
    /\ UNCHANGED <<fs, last, nops, arg>>

NextFixName == FixName

SpecFixName == InitFixName /\ [][NextFixName]_vars

(***************************************************************************)
(* One check request with --fix on an event of 0_new whose directory and   *)
(* files have names that are not legal.                                    *)
(***************************************************************************)
\* an event directory with a space in its name, and what the fix calls it
FixEvent == <<"0_new", "2024-10-30_e v">>

FixedEvent == <<"0_new", "2024-10-30_e_v">>

\* the pictures the event can hold; the second and the third get the name
\* of the first from the replacements
FixPictures == {"D_3.jpg", "D 3.jpg", "D 3-_.jpg", "D1.jpg"}

\* each picture with bytes of its own
FixContents(name) ==
    CASE name = "D_3.jpg" -> [size |-> 9000, head |-> "a", rest |-> "d"]
      [] name = "D 3.jpg" -> [size |-> 9100, head |-> "b", rest |-> "d"]
      [] name = "D 3-_.jpg" -> [size |-> 9200, head |-> "c", rest |-> "d"]
      [] OTHER -> [size |-> 9300, head |-> "e", rest |-> "d"]

\* beside the event: nothing, an empty directory with the fixed name, or
\* one with a picture in it
FixSiblings == {"none", "empty", "full"}

FixArchive(names, sibling) ==
    [p \in {FixEvent \o <<"jpg", n>> : n \in names} |-> File(\o664, FixContents(Name(p)))]
        @@ [p \in {FixEvent, FixEvent \o <<"jpg">>} |-> Dir(\o775)]
        @@ (IF sibling = "none" THEN <<>>
            ELSE IF sibling = "empty" THEN (FixedEvent :> Dir(\o775))
            ELSE (FixedEvent :> Dir(\o775)) @@ (FixedEvent \o <<"jpg">> :> Dir(\o775))
                    @@ (FixedEvent \o <<"jpg", "D9.jpg">> :>
                            File(\o664, [size |-> 9400, head |-> "f", rest |-> "d"])))
        @@ StageDirs

InitFix ==
    /\ \E names \in SUBSET FixPictures, sibling \in FixSiblings :
            fs = FixArchive(names, sibling)
    /\ last = NoCmd
    /\ nops = 0
    /\ arg = NoArg
    /\ res = NoRes

\* pwf_check.py -f [-o name] path, on 0_new, on the event or on its jpg folder
NextFix ==
    /\ last.op = "none"
    /\ \E path \in {<<"0_new">>, FixEvent, FixEvent \o <<"jpg">>},
          onlylist \in {{}, {"name"}} :
            Check(path, {}, onlylist, TRUE, FALSE)

SpecFix == InitFix /\ [][NextFix]_vars

(***************************************************************************)
(* The checksums check and the missing-files check on 1_original/2024 with *)
(* a manifest of whole lines, as md5sum writes them.                       *)
(***************************************************************************)
\* at most this many lines in the manifest
MaxLines == 3

\* the pictures the manifest speaks of, relative to 1_original/2024
ManifestPictures == {<<EventName, "jpg", "D1.jpg">>, <<EventName, "jpg", "D2.jpg">>}

\* what a picture holds: D2.jpg can be a copy of D1.jpg
ManifestContents ==
    {[size |-> 9000, head |-> "a", rest |-> "d"], [size |-> 9000, head |-> "c", rest |-> "d"]}

\* a line of the manifest: checksum, " *", the path from 1_original on
ManifestLine(md5sum, rel) == md5sum \o " *2024/" \o JoinPath(rel) \o "\n"

\* the lines a manifest can have: each picture with either checksum, and the
\* line the tests append
LineChoices ==
    {ManifestLine(Md5Hex(c.head \o c.rest), rel) :
        c \in ManifestContents, rel \in ManifestPictures}
        \cup {"0123 *2024/test.txt\n"}

RECURSIVE Concat(_)
Concat(lines) == IF Len(lines) = 0 THEN "" ELSE Head(lines) \o Concat(Tail(lines))

\* the manifests of n different lines
Manifests(n) ==
    {m \in [1..n -> LineChoices] : \A i, j \in 1..n : i # j => m[i] # m[j]}

\* 1_original/2024 with the pictures of names holding what c gives them, and
\* 1_original/2024.md5 with the lines of m
ManifestArchive(names, c, m) ==
    [p \in {YearDir \o rel : rel \in names} |-> File(\o444, c[SubSeq(p, 3, Len(p))])]
        @@ [p \in {YearDir, YearDir \o <<EventName>>, YearDir \o <<EventName, "jpg">>} |->
                Dir(\o555)]
        @@ (Md5File(YearDir) :>
                [kind |-> "file", mode |-> \o664, size |-> Len(Concat(m)),
                 head |-> Concat(m), rest |-> NoBytes])
        @@ StageDirs

InitManifest ==
    /\ \E names \in SUBSET ManifestPictures, c \in [ManifestPictures -> ManifestContents],
          n \in 0..MaxLines :
            \E m \in Manifests(n) :
                /\ fs = ManifestArchive(names, c, m)
                /\ arg = [NoArg EXCEPT !.parts = YearDir, !.order = m]
    /\ res = NoRes
    /\ last = NoCmd
    /\ nops = 0

\* pwf_check._check_checksums(path)
CheckChecksums ==
    /\ res.raised = "pending"
    /\ res' = [NoRes EXCEPT !.raised = _check_checksums(fs, arg.parts), !.name = "cs"]
    /\ UNCHANGED <<fs, last, nops, arg>>

\* pwf_check._check_missing_files(path)
CheckMissingFiles ==
    /\ res.raised = "pending"
    /\ res' = [NoRes EXCEPT !.raised = _check_missing_files(fs, arg.parts),
                            !.name = "miss"]
    /\ UNCHANGED <<fs, last, nops, arg>>

NextManifest == CheckChecksums \/ CheckMissingFiles

SpecManifest == InitManifest /\ [][NextManifest]_vars

(***************************************************************************)
(* One import request on an archive, fresh or protected, for an event      *)
(* directory of 0_new and for paths that are none.                         *)
(***************************************************************************)
ImportPaths == {<<"0_new">>, NewEvent, NewEvent \o <<"jpg">>, YearDir \o <<EventName>>}

InitImport ==
    /\ fs \in FreshArchives \cup ProtectedArchives
    /\ last = NoCmd
    /\ nops = 0
    /\ arg = NoArg
    /\ res = NoRes

NextImport ==
    /\ last.op = "none"
    /\ \E path \in ImportPaths, ignorelist \in {{}, {"raw"}},
          keep_unprotected, is_nono \in BOOLEAN :
            Import(path, ignorelist # {}, ignorelist, keep_unprotected, is_nono)

SpecImport == InitImport /\ [][NextImport]_vars

(***************************************************************************)
(* Link requests one after the other, on the archive of the link tests.    *)
(* A destination is a tag or a path as typed, ".." steps among its parts.  *)
(***************************************************************************)
\* at most this many link requests in a row
MaxLinks == 2

ForwardSources ==
    {OriginalEvent \o <<"jpg">>, OriginalEvent \o <<"jpg", "D1.jpg">>,
     LabEvent \o <<"3_final_jpg">>, LabEvent \o <<"3_final_jpg", "F1.jpg">>}

ForwardDestinations ==
    {<<"@lab">>, <<"@album">>, <<"@original">>,
     RootParts \o <<"4_print", "2024">>,
     RootParts \o <<"3_album", "..", "1_original", "2024", "L.jpg">>,
     RootParts \o <<"4_print", "..", "0_new">>,
     OriginalEvent \o <<"jpg">>, RootParts \o NewEvent}

InitLinks ==
    /\ fs \in FreshLinkArchives
    /\ last = NoCmd
    /\ nops = 0
    /\ arg = NoArg
    /\ res = NoRes

NextLinks ==
    /\ nops < MaxLinks
    /\ \E src_path \in ForwardSources, dst_path \in ForwardDestinations, is_all \in BOOLEAN :
            Link(src_path, dst_path, is_all, FALSE)

SpecLinks == InitLinks /\ [][NextLinks]_vars

(***************************************************************************)
(* Properties                                                              *)
(***************************************************************************)
\* the positions of the stage directory names among the parts
StagePositions(parts) == {i \in 1..Len(parts) : parts[i] \in StageDirNames}

\* the stage a directory name stands for
StageOfDir(d) == CHOOSE s \in States : state_dirs[s] = d

\* C1: parse_path succeeds exactly when some part of the path is one of the
\* five stage directory names; the state it returns is the stage of the first
\* such part, and with no such part it raises the classification error.
C1_FirstStageSegment ==
    res.raised # "pending" =>
        IF StagePositions(arg.parts) = {}
        THEN res.raised = "ValueError: Cannot parse state from path!"
        ELSE /\ res.raised = None
             /\ res.info.state = StageOfDir(arg.parts[SetMin(StagePositions(arg.parts))])

\* C1, its case: a path with two different stage names, parsed
C1_TwoStagesParsed ==
    /\ res.raised = None
    /\ Cardinality({arg.parts[i] : i \in StagePositions(arg.parts)}) >= 2
    /\ res.info.state = StageOfDir(arg.parts[SetMin(StagePositions(arg.parts))])

\* the stage of the path _get_checklist is asked about
ArgStage == StageOfDir(arg.parts[Len(RootParts) + 1])

\* the exemptions of a stage, as the specification lists them
Exemptions(stage) ==
    CASE stage = "NEW" -> {"cs", "miss", "prot"}
      [] stage = "LAB" -> {"cs", "miss", "prot", "path", "raw"}
      [] stage = "ORIGINAL" -> {}
      [] stage \in {"ALBUM", "PRINT"} -> {"cs", "miss", "prot"}

\* the default checklists, as the specification lists them
DefaultChecklist(stage) ==
    CASE stage = "NEW" -> {"name", "dup", "raw", "path"}
      [] stage = "ORIGINAL" -> {"cs", "dup", "miss", "name", "path", "prot", "raw"}
      [] stage = "LAB" -> {"name", "dup"}
      [] stage \in {"ALBUM", "PRINT"} -> {"name", "dup", "path", "raw"}

\* (the only set if non-empty, else all seven) minus (ignore set and exemptions)
EffectiveChecklist(stage, ignorelist, onlylist) ==
    (IF onlylist # {} THEN onlylist ELSE DefaultChecklist("ORIGINAL"))
        \ (ignorelist \cup Exemptions(stage))

EverythingIgnored == "ValueError: Everything ignored, nothing to check!"

ForbiddenErrors ==
    {"ValueError: Ignoring duplicate violations is not allowed in 0_new!",
     "ValueError: Ignoring path violations is not allowed in 0_new!"}

\* _get_checklist answered with the effective checklist, or with 'Everything
\* ignored' when that is empty
ChecklistAsComputed ==
    /\ IF EffectiveChecklist(ArgStage, arg.ignorelist, arg.onlylist) = {}
       THEN res.raised = EverythingIgnored
       ELSE /\ res.raised = None
            /\ res.checklist = EffectiveChecklist(ArgStage, arg.ignorelist, arg.onlylist)
    /\ (arg.ignorelist = {} /\ arg.onlylist = {})
            => res.raised = None /\ res.checklist = DefaultChecklist(ArgStage)

\* C2 as stated: for every stage, ignore set and only set, _get_checklist
\* returns the effective checklist, and raises 'Everything ignored' exactly
\* when it is empty.
C2_EveryRequest == res.raised # "pending" => ChecklistAsComputed

\* C2, amended: the same for every request but those of stage NEW whose ignore
\* set contains dup or path.
C2_Checklist ==
    (res.raised # "pending" /\ ~(ArgStage = "NEW" /\ arg.ignorelist \cap {"dup", "path"} # {}))
        => ChecklistAsComputed

\* C2, its case: the default checklist of LAB
C2_LabDefault ==
    /\ ArgStage = "LAB" /\ arg.ignorelist = {} /\ arg.onlylist = {}
    /\ res.raised = None
    /\ res.checklist = {"name", "dup"}

\* the stage of an archive path
StageOfPath(path) == StageOfDir(path[1])

\* the last command was a check whose ignore set names dup or path
IgnoresDupOrPath(cmd) == cmd.op = "check" /\ cmd.ignorelist \cap {"dup", "path"} # {}

\* a check request of stage NEW ends with the forbidden-ignore error, no
\* category run and the archive as it was
RejectedInNew ==
    StageOfPath(last'.path) = "NEW"
        => last'.outcome \in ForbiddenErrors /\ last'.ran = <<>> /\ fs' = fs

\* C3 as stated: with dup or path in the ignore set a request of stage NEW
\* fails with a policy error before any category runs or any rename is made,
\* and a request of any other stage meets no policy error.
C3_AcceptedElsewhere ==
    [][IgnoresDupOrPath(last') =>
        /\ RejectedInNew
        /\ StageOfPath(last'.path) # "NEW"
                => last'.outcome \notin ForbiddenErrors \cup {EverythingIgnored}]_vars

\* C3, amended: a request of any other stage is not refused for naming dup or
\* path; it meets the policy error 'Everything ignored' exactly when its
\* effective checklist is empty.
C3_ForbiddenIgnore ==
    [][IgnoresDupOrPath(last') =>
        /\ RejectedInNew
        /\ StageOfPath(last'.path) # "NEW"
                => /\ last'.outcome \notin ForbiddenErrors
                   /\ last'.outcome = EverythingIgnored
                        <=> EffectiveChecklist(StageOfPath(last'.path), last'.ignorelist,
                                               last'.onlylist) = {}]_vars

\* C3, its case: a fixing check of 0_new that ignores dup, refused while a
\* name is still illegal
C3_RefusedBeforeRename ==
    /\ IgnoresDupOrPath(last)
    /\ StageOfPath(last.path) = "NEW"
    /\ "fix" \in last.flags /\ "nono" \notin last.flags
    /\ last.outcome \in ForbiddenErrors
    /\ \E p \in Glob(fs, last.path) : ~IsLegalName(Name(p))

\* the order of the categories, as the specification lists them
CategoryOrder == <<"name", "dup", "prot", "raw", "path", "cs", "miss">>

\* the categories a check has to run for its request, in order
ExpectedRun(cmd) ==
    LET enabled == EffectiveChecklist(StageOfPath(cmd.path), cmd.ignorelist, cmd.onlylist)
        Runs(c) == c \in enabled /\ (c = "miss" => "cs" \notin enabled)
    IN  SelectSeq(CategoryOrder, Runs)

\* the check went through its categories: its request was accepted, it was no
\* dry run of the name fix, and the name fix did not fail
WentThrough(cmd) ==
    /\ cmd.op = "check"
    /\ cmd.outcome \notin ForbiddenErrors \cup {EverythingIgnored}
    /\ ~("fix" \in cmd.flags /\ "name" \in Range(ExpectedRun(cmd)) /\ cmd.ran = <<>>)

\* C4: check runs the enabled categories in the order names, duplicates,
\* protection, raw-derivatives, path-location, then checksums or else
\* missing-files; the first that finds a violation raises and ends the run.
C4_FixedOrder ==
    WentThrough(last) =>
        /\ IsPrefix(last.ran, ExpectedRun(last))
        /\ \A i \in 1..(Len(last.ran) - 1) : RunCategory(last.ran[i], fs, last.path) = OK
        /\ IF last.outcome = OK
           THEN /\ last.ran = ExpectedRun(last)
                /\ \A i \in 1..Len(last.ran) : RunCategory(last.ran[i], fs, last.path) = OK
           ELSE /\ last.ran # <<>>
                /\ RunCategory(last.ran[Len(last.ran)], fs, last.path) = last.outcome

\* C4, its case: a check that passed two categories and stopped at the third,
\* with more to run
C4_StoppedEarly ==
    /\ WentThrough(last)
    /\ last.outcome # OK
    /\ Len(last.ran) >= 3
    /\ Len(last.ran) < Len(ExpectedRun(last))

\* the files below path
FilesBelow(f, path) == {p \in Glob(f, path) : IsFile(f, p)}

\* the lines of the manifest beside path, none when there is no manifest
ManifestLines(f, path) ==
    IF IsFile(f, Md5File(path)) THEN ReadLines(f[Md5File(path)].head) ELSE <<>>

\* cmd is a run of protect that completed
Protected(cmd, is_forced) ==
    cmd.op = "protect" /\ ("forced" \in cmd.flags <=> is_forced) /\ cmd.outcome = OK

\* C5: after protect(path, forced=true) has completed on a directory, the
\* protection check on path reports no violation.
C5_ProtectionCheckPasses ==
    (Protected(last, TRUE) /\ IsDir(fs, last.path)) => _check_protection(fs, last.path) = OK

\* C6: after protect(path, forced=true) on a subtree with files and without a
\* manifest, the checksums check on path reports no violation.
C6_ChecksumsCheckPasses ==
    [][(Protected(last', TRUE) /\ ~Exists(fs, Md5File(last'.path))
            /\ FilesBelow(fs, last'.path) # {})
        => _check_checksums(fs', last'.path) = OK]_vars

\* C7: protect on a subtree with n >= 1 files and without a manifest leaves a
\* manifest of exactly n lines, one per file, of the form
\* '<32-hex md5> *<path relative to the parent of path>'; a single file ends
\* at mode 0o444.
C7_OneLinePerFile ==
    [][(last'.op = "protect" /\ last'.outcome = OK /\ ~Exists(fs, Md5File(last'.path))
            /\ FilesBelow(fs, last'.path) # {})
        => /\ Len(ManifestLines(fs', last'.path)) = Cardinality(FilesBelow(fs, last'.path))
           /\ {Strip(line) : line \in Range(ManifestLines(fs', last'.path))}
                = {compute_md5sum(fs[p], FALSE) \o " *" \o RelativeToParent(p, last'.path) :
                        p \in FilesBelow(fs, last'.path)}
           /\ \A p \in FilesBelow(fs, last'.path) :
                    Len(compute_md5sum(fs[p], FALSE)) = 32
           /\ Cardinality(FilesBelow(fs, last'.path)) = 1
                => \A p \in FilesBelow(fs', last'.path) : fs'[p].mode = \o444]_vars

\* C8: unprotect(path, includeFiles=true) followed by protect(path,
\* forced=true) leaves the directories below path at 0o555 and the files at
\* 0o444, and the manifest keeps its earlier lines and gains one per file.
C8_ManifestAccumulates ==
    [][(last.op = "unprotect" /\ "all" \in last.flags
            /\ Protected(last', TRUE) /\ last'.path = last.path)
        => /\ \A p \in Glob(fs', last'.path) :
                    fs'[p].mode = IF IsDir(fs', p) THEN \o555 ELSE \o444
           /\ Len(ManifestLines(fs', last'.path))
                = Len(ManifestLines(fs, last'.path))
                    + Cardinality(FilesBelow(fs, last'.path))
           /\ IsPrefix(ManifestLines(fs, last'.path), ManifestLines(fs', last'.path))]_vars

\* the subtree at path is open and the checks but protection and the manifest
\* ones find nothing
CleanAndOpen(f, path) ==
    /\ IsDir(f, path)
    /\ \A p \in WithSelf(f, path) : ~IsLocked(StMode(f[p]))
    /\ _check_names(f, path) = OK
    /\ _check_duplicates(f, path) = OK
    /\ _check_raw_derivatives(f, path) = OK
    /\ _check_paths(f, path) = OK

\* C9: protect(path, forced=false) on a clean, open subtree of 1_original that
\* holds files and was never protected (no manifest) completes without error
\* and locks what is below path.
C9_FirstProtectUnforced ==
    [][(last'.op = "protect" /\ "forced" \notin last'.flags
            /\ StageOfPath(last'.path) = "ORIGINAL"
            /\ CleanAndOpen(fs, last'.path) /\ ~Exists(fs, Md5File(last'.path))
            /\ FilesBelow(fs, last'.path) # {})
        => /\ last'.outcome = OK
           /\ \A p \in Glob(fs', last'.path) : IsLocked(StMode(fs'[p]))]_vars

\* cmd is an import that completed, neither a dry run nor kept unprotected
Imported(cmd) ==
    cmd.op = "import" /\ cmd.outcome = OK /\ cmd.flags \cap {"nono", "keep"} = {}

\* C10: a successful import of 0_new/EVENT runs check, unprotect, move and
\* protect in that order and ends with the event's files under
\* 1_original/YEAR/EVENT and nothing at 0_new/EVENT, whether or not
\* 1_original/YEAR existed.
C10_ImportedUnderYearEvent ==
    [][Imported(last')
        => /\ last'.ran = <<"check", "unprotect", "move", "protect">>
           /\ ~Exists(fs', last'.path)
           /\ \A p \in FilesBelow(fs, last'.path) :
                    IsFile(fs', YearDir \o <<Name(last'.path)>>
                                    \o SubSeq(p, Len(last'.path) + 1, Len(p)))]_vars

\* a path root/1_original/<year>/<event>/<type> or below, <type> a type directory
IsOriginalTypePath(p) ==
    /\ BelowRoot(p) /\ Len(p) >= Len(RootParts) + 4
    /\ p[Len(RootParts) + 1] = "1_original"
    /\ MatchesYear(p[Len(RootParts) + 2]) /\ Len(p[Len(RootParts) + 2]) = 4
    /\ MatchesEvent(p[Len(RootParts) + 3])
    /\ p[Len(RootParts) + 4] \in type_dirs

\* the path with its stage segment replaced by 2_lab and its type segment by
\* 2_original_<type>
ExpectedLabPath(p) ==
    [i \in 1..Len(p) |->
        IF i = Len(RootParts) + 1 THEN "2_lab"
        ELSE IF i = Len(RootParts) + 4 THEN "2_original_" \o p[i]
        ELSE p[i]]

\* C12: for every source root/1_original/<year>/<event>/<type> or below it,
\* resolving the tag @lab returns the same path with only the stage segment
\* replaced by 2_lab and the type segment by 2_original_<type>; year, event
\* and file name are unchanged.
C12_LabDestination ==
    (res.raised # "pending" /\ arg.tag = "@lab" /\ IsOriginalTypePath(arg.parts))
        => res.raised = None /\ res.path = ExpectedLabPath(arg.parts)

\* the number of path components between the root and the parent of dst
StepsToRoot(dst) == Len(RootRelative(Parent(dst)))

\* C13: _relative_to(src, dst) is one '..' for each path component between the
\* root and the parent directory of dst, followed by src relative to the root;
\* resolved from the parent directory of dst it yields src.
C13_UpToRootThenDown ==
    res.raised # "pending" =>
        /\ res.raised = None
        /\ Len(res.path) = StepsToRoot(arg.dst) + Len(RootRelative(arg.parts))
        /\ \A i \in 1..StepsToRoot(arg.dst) : res.path[i] = ".."
        /\ SubSeq(res.path, StepsToRoot(arg.dst) + 1, Len(res.path)) = RootRelative(arg.parts)
        /\ Normal(<<"/">>, Tail(Parent(arg.dst)) \o res.path) = arg.parts

\* C13, its case: the link target from root/a/b/c/x to root/a/b/c
C13_ThroughTheRoot ==
    /\ arg.parts = RootParts \o <<"a", "b", "c">>
    /\ Len(RootRelative(arg.dst)) = 4
    /\ SubSeq(arg.dst, 1, Len(arg.dst) - 1) = arg.parts
    /\ res.raised = None
    /\ res.path = <<"..", "..", "..", "a", "b", "c">>

\* the stage of an absolute path: that of its first stage directory name
StageOf(p) ==
    IF StagePositions(p) = {} THEN None ELSE StageOfDir(p[SetMin(StagePositions(p))])

\* the adjacency table and the two folder rules, as the specification lists them
MayLink(src, dst) ==
    /\ <<StageOf(src), StageOf(dst)>> \in
            {<<"ORIGINAL", "LAB">>, <<"ORIGINAL", "ALBUM">>, <<"ORIGINAL", "PRINT">>,
             <<"LAB", "ALBUM">>, <<"LAB", "PRINT">>}
    /\ StageOf(src) = "LAB" => Contains(StrPath(src), "3_final_")
    /\ StageOf(dst) = "LAB" => Contains(StrPath(dst), "2_original_")

\* the link request passed _check_is_allowed
LinkAccepted(cmd) == "allowed" \in Range(cmd.ran)

\* the links of an archive
Links(f) == {p \in DOMAIN f : f[p].kind = "link"}

\* C11: a link request for an existing source is accepted exactly when (source
\* stage, destination stage) is in the adjacency table, the source path
\* contains 3_final_ if its stage is LAB and the destination path contains
\* 2_original_ if its stage is LAB; every other request is rejected with a
\* policy error (ValueError) and creates no link.
C11_AdjacencyTable ==
    [][(last'.op = "link" /\ last'.dst # <<>> /\ PathExists(fs, last'.path))
        => /\ LinkAccepted(last') <=> MayLink(last'.path, last'.dst)
           /\ ~LinkAccepted(last')
                => StartsWith(last'.outcome, "ValueError") /\ fs' = fs]_vars

\* C11, its case: a 3_final_ folder of the lab linked into 3_album
C11_FinalToAlbum ==
    /\ last.op = "link" /\ LinkAccepted(last) /\ last.outcome = OK
    /\ StageOf(last.path) = "LAB" /\ StageOf(last.dst) = "ALBUM"
    /\ \E p \in Links(fs) : p[1] = "3_album" /\ Name(p) = "F1.jpg"

\* the entry at an absolute path
NodeAt(f, p) == f[RootRelative(p)]

\* the link at p has a relative target that leads to the entry at target
RelativeLinkTo(f, p, target) ==
    /\ IsSymlink(f, p)
    /\ ~StartsWith(NodeAt(f, p).head, "/")
    /\ LinkTarget(f, p) = target

\* the destination of a call of _link_to_file is an existing file or link,
\* not the source itself, in a directory the user may write to
ExistingDestination(f, cmd) ==
    /\ cmd.op = "link_to_file" /\ cmd.dst # cmd.path
    /\ LExists(f, cmd.dst) /\ NodeAt(f, cmd.dst).kind # "dir"
    /\ PathWritable(f, Parent(cmd.dst))

\* C14: linkFile to a destination that already exists: without forced the
\* destination is left unchanged and the call returns without error; with
\* forced the destination is removed and replaced by a relative symlink to
\* the source.
C14_ExistingDestination ==
    [][ExistingDestination(fs, last')
        => /\ last'.outcome = OK
           /\ IF "forced" \in last'.flags
              THEN /\ IsSymlink(fs', last'.dst)
                   /\ ~StartsWith(NodeAt(fs', last'.dst).head, "/")
                   /\ Follow(fs', last'.dst, 0) = Follow(fs, last'.path, 0)
              ELSE fs' = fs]_vars

\* the source of a call of _link_to_file is a link that leads to a file, and
\* the destination is a free name in a directory the user may write to
LinkedSource(f, cmd) ==
    /\ cmd.op = "link_to_file"
    /\ IsSymlink(f, cmd.path) /\ PathExists(f, cmd.path)
    /\ ~LExists(f, cmd.dst) /\ PathWritable(f, Parent(cmd.dst))

\* C15: when the source of linkFile is itself a symlink, also a relative one
\* that linkFile created, the call completes without error and the link it
\* creates points at the final non-link target of the source.
C15_FlattenedLink ==
    [][LinkedSource(fs, last')
        => /\ last'.outcome = OK
           /\ RelativeLinkTo(fs', last'.dst, Follow(fs, last'.path, 0))]_vars

\* C16: in every group the duplicates check reports, any two files have equal
\* first-8000-byte fingerprints and equal sizes; files of different sizes are
\* never reported in the same group.
C16_GroupsOfEqualSize ==
    res.raised # "pending" =>
        \A g \in res.groups : \A a, b \in g :
            /\ compute_md5sum(fs[a], TRUE) = compute_md5sum(fs[b], TRUE)
            /\ fs[a].size = fs[b].size

\* the write bits of a mode: owner, group, others (mode & 0o222)
WriteBits(mode) == {w \in {128, 16, 2} : (mode \div w) % 2 = 1}

NotProtected == "AssertionError: Found unprotected files or directories!"

\* C17: for every mode the protection check takes an entry as protected
\* exactly when mode & 0o222 = 0; 0o664 and 0o775 are reported, 0o444 and
\* 0o555 are not.
C17_WriteBits ==
    res.raised # "pending" =>
        /\ res.raised = (IF WriteBits(fs[arg.parts].mode) = {} THEN OK ELSE NotProtected)
        /\ fs[arg.parts].mode \in {\o664, \o775} => res.raised = NotProtected
        /\ fs[arg.parts].mode \in {\o444, \o555} => res.raised = OK

\* C17, its case: a mode with the write bit of the owner only, reported
C17_OwnerWriteOnly ==
    /\ fs[arg.parts].mode = \o644 /\ fs[arg.parts].kind = "file"
    /\ res.raised = NotProtected

\* the names of the raw files below path: those ending in .NEF, .NRW or .CR2
RawNames(f, path) ==
    {Name(p) : p \in {q \in Glob(f, path) :
                        \E ext \in {"NEF", "NRW", "CR2"} : EndsWith(Name(q), "." \o ext)}}

\* the name without its extension
WithoutExtension(name) == SubSeq(name, 1, RFind(name, ".") - 1)

HasLetter(name) == \E i \in 1..Len(name) : Ch(name, i) \in Letters

\* the name without its extension, from its first letter on
StemFromFirstLetter(name) ==
    LET stem == WithoutExtension(name)
        first == SetMin({i \in 1..Len(stem) : Ch(stem, i) \in Letters})
    IN  SubSeq(stem, first, Len(stem))

\* for some raw file with a letter in its stem, more than one entry below
\* path has a name that contains the stem
HasDerivatives(f, path) ==
    \E n \in RawNames(f, path) :
        /\ HasLetter(WithoutExtension(n))
        /\ Cardinality({q \in Glob(f, path) : Contains(Name(q), StemFromFirstLetter(n))}) > 1

\* C18 as stated: the raw-derivatives check raises exactly when, for some
\* raw-extension file, more than one entry of the subtree has a name that
\* contains the file's stem.
C18_RaisesExactlyWhen ==
    res.raised # "pending" => (res.raised # OK <=> HasDerivatives(fs, arg.parts))

\* C18, amended: so it is when every raw-extension file has a letter in its
\* name before the extension, the error being 'Found RAW derivatives!'; a raw
\* file without one makes the check raise RuntimeError whatever else is there.
C18_Derivatives ==
    res.raised # "pending" =>
        IF \E n \in RawNames(fs, arg.parts) : ~HasLetter(WithoutExtension(n))
        THEN res.raised = "RuntimeError: Unable to determine orig name"
        ELSE res.raised = (IF HasDerivatives(fs, arg.parts)
                           THEN "AssertionError: Found RAW derivatives!" ELSE OK)

\* C18, its case: jpg/DSC_100.jpg beside raw/DSC_100.NEF, and nothing else
C18_JpgBesideRaw ==
    /\ DOMAIN fs \cap {p \in DOMAIN fs : IsFile(fs, p)}
            = {NewEvent \o <<"jpg", "DSC_100.jpg">>, NewEvent \o <<"raw", "DSC_100.NEF">>}
    /\ res.raised = "AssertionError: Found RAW derivatives!"

\* every character of the name is a letter, a digit or one of _ ~ . -
LegalName(name) ==
    /\ name # ""
    /\ \A i \in 1..Len(name) :
            Ch(name, i) \in Letters \cup Digits \cup {"_", "~", ".", "-"}

\* C19 as stated: the replacement table applied to a name that matches the
\* legal-character class returns the same name.
C19_LegalNameKept ==
    (res.raised # "pending" /\ LegalName(arg.name)) => res.name = arg.name

\* C19, amended: so it is for a legal name that does not contain '-_'; from a
\* legal name that contains '-_' every such pair is removed.
C19_LegalNameWithoutDashUnderscore ==
    (res.raised # "pending" /\ LegalName(arg.name)) =>
        /\ ~Contains(arg.name, "-_") => res.name = arg.name
        /\ Contains(arg.name, "-_") =>
                Len(res.name) = Len(arg.name) - 2 * Cardinality(
                    {i \in Occurrences(arg.name, "-_") :
                        ~(i - 1 \in Occurrences(arg.name, "-_"))})

\* C19, its case: a legal name with an underscore followed by a dash
C19_UnderscoreDash ==
    /\ arg.name = "a_-a"
    /\ res.raised = None
    /\ res.name = "a_-a"

\* the last command is a check with autofix and dry-run whose checklist holds
\* the names
FixDryRun(cmd) ==
    /\ cmd.op = "check" /\ {"fix", "nono"} \subseteq cmd.flags
    /\ cmd.outcome \notin ForbiddenErrors \cup {EverythingIgnored}
    /\ "name" \in EffectiveChecklist(StageOfPath(cmd.path), cmd.ignorelist, cmd.onlylist)

\* C20: a check with autofix and dry-run (names in the checklist) renames
\* nothing, runs no check category and returns normally, also when names of
\* the subtree are illegal.
C20_DryRunFix ==
    [][FixDryRun(last') => last'.outcome = OK /\ last'.ran = <<>> /\ fs' = fs]_vars

\* C20, its case: such a dry run on a subtree with an illegal name
C20_IllegalNameLeft ==
    /\ FixDryRun(last) /\ last.outcome = OK
    /\ \E p \in Glob(fs, last.path) : ~IsLegalName(Name(p))

\* the positions of the bare years among the parts: four digits, nothing else
BareYearPositions(parts) ==
    {i \in 1..Len(parts) : Len(parts[i]) = 4 /\ AllDigits(parts[i])}

\* the positions of the parts that match the event pattern YYYY-MM-DD_<name>
EventPositions(parts) == {i \in 1..Len(parts) : MatchesEvent(parts[i])}

\* C21: for a path parse_path classifies, the year is that of the first bare
\* year among the parts, whatever bare years follow it; a part that is not
\* four digits is no bare year, so with no bare year and no event among the
\* parts the year is unset.
C21_FirstBareYear ==
    res.raised = None =>
        /\ BareYearPositions(arg.parts) # {} =>
                res.info.year = StrToInt(arg.parts[SetMin(BareYearPositions(arg.parts))])
        /\ (BareYearPositions(arg.parts) = {} /\ EventPositions(arg.parts) = {}) =>
                res.info.year = NoYear

\* C22: for a path parse_path classifies that has a part matching the event
\* pattern and no bare year, the year is the number of the first four
\* characters of the event returned; and a part matching the event pattern
\* is the event, never a year.
C22_YearOfEvent ==
    (res.raised = None /\ EventPositions(arg.parts) # {}) =>
        /\ res.info.event \in {arg.parts[i] : i \in EventPositions(arg.parts)}
        /\ BareYearPositions(arg.parts) = {} =>
                res.info.year = StrToInt(SubSeq(res.info.event, 1, 4))

\* C23: a step of unprotect without -a adds and removes nothing, sets the
\* mode of every directory below the path to 0o775 and that of the manifest
\* beside the path to 0o664, and leaves every other entry, the files of the
\* subtree among them, as it was; unprotect run once more changes nothing.
C23_OnlyDirectories ==
    [][(last'.op = "unprotect" /\ "all" \notin last'.flags) =>
            /\ DOMAIN fs' = DOMAIN fs
            /\ \A p \in DOMAIN fs :
                    fs'[p] =
                        IF p \in Glob(fs, last'.path) /\ fs[p].kind = "dir"
                        THEN [fs[p] EXCEPT !.mode = \o775]
                        ELSE IF p = Md5File(last'.path)
                        THEN [fs[p] EXCEPT !.mode = \o664]
                        ELSE fs[p]
            /\ unprotect(fs', last'.path, FALSE) = fs']_vars

\* C23, its case: unprotect without -a has run on a protected year: the
\* manifest and a directory are open, a file below is still read-only
C23_FilesStayProtected ==
    /\ last.op = "unprotect"
    /\ "all" \notin last.flags
    /\ Exists(fs, Md5File(last.path)) /\ fs[Md5File(last.path)].mode = \o664
    /\ \E p \in Glob(fs, last.path) : fs[p].kind = "dir" /\ fs[p].mode = \o775
    /\ \E p \in Glob(fs, last.path) : fs[p].kind = "file" /\ fs[p].mode = \o444

\* a check request with --fix and without --nono has just been served
FixStep == last'.op = "check" /\ "fix" \in last'.flags /\ "nono" \notin last'.flags

\* the files of the archive
Files(f) == {p \in DOMAIN f : f[p].kind = "file"}

\* C24: when a fix has renamed the root path of the request, whose name was
\* not legal, the check goes on with the renamed root: it ends as a check
\* without --fix of the renamed root does, having run the same categories,
\* and so returns normally when nothing else is wrong.
C24_ContinuesOnRenamedRoot ==
    [][\A o \in ReplacementOrders :
        LET root == Parent(last'.path) \o <<FixedName(Name(last'.path), o, 1)>>
            Again(r) == last'.outcome = r.outcome /\ last'.ran = r.ran
        IN  (/\ FixStep
             /\ ~IsLegalName(Name(last'.path))
             /\ Exists(fs, last'.path) /\ ~Exists(fs', last'.path)
             /\ Exists(fs', root))
                => Again(main_check(fs', root, last'.ignorelist, last'.onlylist,
                                    FALSE, FALSE, <<>>))]_vars

\* C25: in a fix no entry comes after one of its ancestors in the list of
\* the entries to rename, and no rename finds its entry gone
C25_DeepestFirst ==
    [][FixStep =>
        LET todo == FilesToFix(fs, last'.path)
        IN  /\ \A i, j \in 1..Len(todo) :
                    (i < j /\ todo[i] # todo[j]) => ~IsPrefix(todo[i], todo[j])
            /\ last'.outcome # "FileNotFoundError"]_vars

\* C25, its case: the picture D 3.jpg and then the event directory above it
\* have been renamed
C25_PictureThenEvent ==
    /\ last.op = "check" /\ "fix" \in last.flags
    /\ last.outcome = OK
    /\ ~Exists(fs, FixEvent)
    /\ Exists(fs, FixedEvent \o <<"jpg", "D_3.jpg">>)
    /\ fs[FixedEvent \o <<"jpg", "D_3.jpg">>].head = FixContents("D 3.jpg").head

\* C29: a fix leaves as many files in the archive as there were, also when
\* two entries get the same name or the new name is taken already
C29_NoFileLost ==
    [][FixStep => Cardinality(Files(fs')) = Cardinality(Files(fs))]_vars

\* C26: the name the replacement loop gives is the same in every order the
\* three rules can be applied in
C26_OrderIndependent ==
    res.raised = None =>
        \A o \in ReplacementOrders : FixedName(arg.name, o, 1) = res.name

\* the lines of the manifest that name a file which is not there
MissingLines ==
    {i \in 1..Len(arg.order) : ~Exists(fs, ReadLine(arg.parts, arg.order[i]).file_path)}

\* the lines of the manifest whose checksum is not that of the file named
WrongLines ==
    {i \in 1..Len(arg.order) :
        LET e == ReadLine(arg.parts, arg.order[i])
        IN  Exists(fs, e.file_path) /\ compute_md5sum(fs[e.file_path], FALSE) # e.md5sum}

\* C27: the checksums check raises when a line of the manifest names a file
\* that is missing or has another checksum, and the missing-files check
\* raises when a line names a file that is missing, whatever the other lines
\* are, lines with the same checksum among them.
C27_EveryLineChecked ==
    /\ (res.name = "cs" /\ MissingLines \cup WrongLines # {}) => res.raised # OK
    /\ (res.name = "miss" /\ MissingLines # {}) => res.raised # OK

ImportStep == last'.op = "import"

\* the path is not an event directory of 0_new, as parse_path sees it
NotEventInNew(path) ==
    LET r == parse_path(AbsParts(path))
    IN  r.raised # None \/ r.info.state # "NEW" \/ ~r.info.is_event_dir

\* the check that import runs on the path raises
ImportCheckRaises(f, path, ignorelist, is_nono) ==
    main_check(f, path, ignorelist, {}, FALSE, is_nono, <<>>).outcome # OK

\* C28: an import of a path that is not an event directory of 0_new, or
\* whose check raises, or with dry-run set, leaves the archive as it was:
\* nothing moved, no mode changed, no manifest written.
C28_NothingDoneBeforeTheMove ==
    [][(/\ ImportStep
        /\ \/ NotEventInNew(last'.path)
           \/ "nono" \in last'.flags
           \/ ImportCheckRaises(fs, last'.path, last'.ignorelist, "nono" \in last'.flags))
            => fs' = fs]_vars

\* a dry run of an import whose check passed, on an archive with a year
\* directory: the event is still in 0_new
C28_DryRunStopped ==
    /\ last.op = "import"
    /\ last.path = NewEvent
    /\ last.ran = <<"check">>
    /\ last.outcome = OK
    /\ "nono" \in last.flags
    /\ Exists(fs, YearDir)
    /\ Exists(fs, NewEvent)

\* the number of the stage a directory of the root stands for
StageNumber(dir) ==
    CASE dir = "0_new" -> 0
      [] dir = "1_original" -> 1
      [] dir = "2_lab" -> 2
      [] dir = "3_album" -> 3
      [] dir = "4_print" -> 4
      [] OTHER -> -1

\* the links that the step has created or replaced
NewLinks == {k \in DOMAIN fs' : fs'[k].kind = "link" /\ (k \notin DOMAIN fs \/ fs[k] # fs'[k])}

\* C30: every link that a link request creates lies in 2_lab, 3_album or
\* 4_print, and in a later stage than the path it was linked from; none is
\* created under 0_new or 1_original.
C30_LinksLeadBack ==
    [][last'.op = "link" =>
        \A k \in NewLinks :
            /\ k[1] \in {"2_lab", "3_album", "4_print"}
            /\ StageNumber(k[1]) > StageNumber(EntryOf(last'.path)[1])]_vars

====
